---- MODULE Spec2Model ----
(***************************************************************************)
(* Analytics pipeline of the SME dashboard (data-processor and the         *)
(* process-data routes): AdvancedAnalytics, RetailAnalytics and            *)
(* processSalesData, modelled as operators over record lists, and the      *)
(* calls of their entry points as actions.                                 *)
(*                                                                         *)
(* JavaScript numbers that can be fractional, NaN or infinite are modelled *)
(* as exact rationals [num, den]: den = 0 is NaN (num = 0) or +-Infinity.  *)
(* Sums of integer inputs stay integers.  Strings that the code compares   *)
(* or parses (dates in dd/MM/yyyy form) are sequences of character codes.  *)
(***************************************************************************)
EXTENDS Integers, Sequences, FiniteSets, TLC

\* ------------------------------------------------------------------ bounds
\* longest input record list
MaxLen == 2

\* --------------------------------------------------------------- sequences
RECURSIVE SumSeq(_)
SumSeq(s) == IF s = <<>> THEN 0 ELSE Head(s) + SumSeq(Tail(s))

Last(s) == s[Len(s)]

\* Array.prototype.map over one field
Pluck(s, f) == [i \in 1..Len(s) |-> s[i][f]]

\* Array.prototype.sort with a numeric comparator (a, b) => key(a) - key(b):
\* stable (ES2019), ascending in keys[i], the key of s[i]
StableSort(s, keys) ==
  LET n == Len(s)
      rank(j) == 1 + Cardinality({m \in 1..n :
                        \/ keys[m] < keys[j]
                        \/ keys[m] = keys[j] /\ m < j})
  IN  [i \in 1..n |-> s[CHOOSE j \in 1..n : rank(j) = i]]

\* String comparison by UTF-16 code units (the default comparator of sort())
StrLess(a, b) ==
  \/ \E i \in 1..Len(a) :
        /\ i <= Len(b)
        /\ a[i] < b[i]
        /\ \A j \in 1..(i - 1) : a[j] = b[j]
  \/ Len(a) < Len(b) /\ \A j \in 1..Len(a) : a[j] = b[j]

\* Array.prototype.sort() without comparator on distinct strings
SortStrings(s) ==
  LET n == Len(s)
      rank(j) == 1 + Cardinality({m \in 1..n : StrLess(s[m], s[j])})
  IN  [i \in 1..n |-> s[CHOOSE j \in 1..n : rank(j) = i]]

\* ---------------------------------------------------------------- numbers
RECURSIVE Gcd(_, _)
Gcd(a, b) == IF b = 0 THEN a ELSE Gcd(b, a % b)

Abs(x) == IF x < 0 THEN -x ELSE x

\* a JavaScript number n/d; d = 0: NaN when n = 0, +-Infinity otherwise
Rat(n, d) ==
  IF d = 0 THEN [num |-> IF n > 0 THEN 1 ELSE IF n < 0 THEN -1 ELSE 0, den |-> 0]
  ELSE LET g == Gcd(Abs(n), Abs(d))
           s == IF d < 0 THEN -1 ELSE 1
       IN  [num |-> s * (n \div g), den |-> s * (d \div g)]

NaN == [num |-> 0, den |-> 0]
IsNaN(x) == x.den = 0 /\ x.num = 0
Num(n) == [num |-> n, den |-> 1]

\* a * b and a + b on finite numbers; NaN is absorbing
RatMul(a, b) == IF a.den = 0 \/ b.den = 0 THEN NaN ELSE Rat(a.num * b.num, a.den * b.den)
RatAdd(a, b) ==
  IF a.den = 0 \/ b.den = 0 THEN NaN ELSE Rat(a.num * b.den + b.num * a.den, a.den * b.den)

\* Math.round: nearest integer, halves round up; NaN stays NaN
MathRound(x) == IF x.den = 0 THEN x ELSE Num((2 * x.num + x.den) \div (2 * x.den))

\* Math.max(0, x): NaN if x is NaN
MathMax0(x) == IF x.den = 0 THEN x ELSE IF x.num < 0 THEN Num(0) ELSE x

\* Math.ceil of n/d, d > 0
CeilDiv(n, d) == -((-n) \div d)

\* ------------------------------------------------------------------- dates
Slash == 47
Zero == 48

\* the string dd/MM/yyyy of a calendar date
toFormat(dt) ==
  << Zero + (dt.day \div 10), Zero + (dt.day % 10), Slash,
     Zero + (dt.month \div 10), Zero + (dt.month % 10), Slash,
     Zero + (dt.year \div 1000), Zero + ((dt.year \div 100) % 10),
     Zero + ((dt.year \div 10) % 10), Zero + (dt.year % 10) >>

\* DateTime.fromFormat(text, 'dd/MM/yyyy') on a well-formed string
fromFormat(text) ==
  [ day   |-> (text[1] - Zero) * 10 + (text[2] - Zero),
    month |-> (text[4] - Zero) * 10 + (text[5] - Zero),
    year  |-> (text[7] - Zero) * 1000 + (text[8] - Zero) * 100
              + (text[9] - Zero) * 10 + (text[10] - Zero) ]

IsLeap(y) == (y % 4 = 0 /\ y % 100 # 0) \/ y % 400 = 0

DaysInMonth(m, y) ==
  IF m = 2 THEN (IF IsLeap(y) THEN 29 ELSE 28)
  ELSE IF m \in {4, 6, 9, 11} THEN 30 ELSE 31

RECURSIVE DaysBeforeMonth(_, _)
DaysBeforeMonth(m, y) ==
  IF m = 1 THEN 0 ELSE DaysBeforeMonth(m - 1, y) + DaysInMonth(m - 1, y)

\* day number of a calendar date (proleptic Gregorian)
DayNumber(dt) ==
  LET y == dt.year - 1
  IN  365 * y + (y \div 4) - (y \div 100) + (y \div 400)
      + DaysBeforeMonth(dt.month, dt.year) + dt.day

\* DateTime.toMillis() of local midnight of the date, in units of one day
\* (86 400 000 ms; a product in ms does not fit the model's integers)
toMillis(dt) == DayNumber(dt)

\* DateTime.plus({ days }): calendar-day addition, days >= 0
RECURSIVE plus(_, _)
plus(dt, days) ==
  IF dt.day + days <= DaysInMonth(dt.month, dt.year)
  THEN [dt EXCEPT !.day = dt.day + days]
  ELSE plus([ day   |-> 1,
              month |-> IF dt.month = 12 THEN 1 ELSE dt.month + 1,
              year  |-> IF dt.month = 12 THEN dt.year + 1 ELSE dt.year ],
            days - (DaysInMonth(dt.month, dt.year) - dt.day) - 1)

addDays(dateStr, days) == toFormat(plus(fromFormat(dateStr), days))

Str(d, m, y) == toFormat([day |-> d, month |-> m, year |-> y])
\* ------------------------------------------------- data-processor constants
\* window of the moving average, smoothing factor and forecast horizon that
\* processData and makePredictions pass
Window == 7
AlphaNum == 2
AlphaDen == 10
Horizon == 30
\* top_products keeps the first five products
TopN == 5
\* calculateRFMScore: reference maximum and quintile size in percent
getMaxValue == 1000
quintileSize == 20
\* ABC thresholds on the cumulative revenue share in percent
ThresholdA == 70
ThresholdB == 90

Alpha == Rat(AlphaNum, AlphaDen)

\* JavaScript null
Null == [null |-> TRUE]

\* ------------------------------------------------------------- forecasting
\* a moving average whose slice starts one observation early (index - window)
calculateMovingAverage_wide(data, window) ==
  [i \in 1..Len(data) |->
     IF i - 1 < window - 1 THEN Null
     ELSE Rat(SumSeq(SubSeq(data, IF i - window < 1 THEN 1 ELSE i - window, i)), window)]

\* AdvancedAnalytics.calculateMovingAverage (RetailAnalytics has the same body)
calculateMovingAverage(data, window) ==
  [i \in 1..Len(data) |->
     IF i - 1 < window - 1 THEN Null
     ELSE Rat(SumSeq(SubSeq(data, i - window + 1, i)), window)]

\* an anchor taken from the first observation instead of the last
LastObserved_first(data) == IF Len(data) = 0 THEN NaN ELSE Num(Head(data))

\* data[data.length - 1] as a number: undefined (empty array) makes NaN
LastObserved(data) == IF Len(data) = 0 THEN NaN ELSE Num(Last(data))

\* one pass of the loop body: alpha * data[data.length - 1] + (1 - alpha) * lastValue
SmoothStep(data, alpha, lastValue) ==
  LET last == LastObserved(data)
  IN  IF last.den = 0 \/ lastValue.den = 0 \/ alpha.den = 0 THEN NaN
      ELSE Rat(alpha.num * last.num * lastValue.den
                 + (alpha.den - alpha.num) * lastValue.num * last.den,
               alpha.den * last.den * lastValue.den)

\* the values lastValue takes in iterations 1..horizon of the loop
RECURSIVE SmoothedValues(_, _, _, _)
SmoothedValues(data, alpha, lastValue, horizon) ==
  IF horizon <= 0 THEN <<>>
  ELSE LET next == SmoothStep(data, alpha, lastValue)
       IN  <<next>> \o SmoothedValues(data, alpha, next, horizon - 1)

\* AdvancedAnalytics.exponentialSmoothing: pushes Math.max(0, Math.round(lastValue))
exponentialSmoothing(data, alpha, horizon) ==
  LET s == SmoothedValues(data, alpha, LastObserved(data), horizon)
  IN  [i \in 1..Len(s) |-> MathMax0(MathRound(s[i]))]

\* RetailAnalytics.exponentialSmoothing: pushes lastValue itself
Retail_exponentialSmoothing(data, alpha, horizon) ==
  SmoothedValues(data, alpha, LastObserved(data), horizon)
\* ------------------------------------------------------------- aggregation
\* keys of an object filled in the order of s: distinct values, first
\* appearance first (Object.keys / Object.entries / _.groupBy)
KeysInOrder(s) ==
  LET first == {i \in 1..Len(s) : \A j \in 1..(i - 1) : s[j] # s[i]}
  IN  [r \in 1..Cardinality(first) |->
         s[CHOOSE i \in first : Cardinality({j \in first : j < i}) = r - 1]]

\* the items of data whose field f equals v, in order (one group of a groupBy)
RECURSIVE GroupOf(_, _, _)
GroupOf(data, f, v) ==
  IF data = <<>> THEN <<>>
  ELSE (IF Head(data)[f] = v THEN <<Head(data)>> ELSE <<>>) \o GroupOf(Tail(data), f, v)

\* a reduce that overwrites the day's units instead of adding to them
RECURSIVE salesByDate_overwrite(_, _)
salesByDate_overwrite(items, acc) ==
  IF items = <<>> THEN acc
  ELSE LET item == Head(items)
           acc1 == IF \E i \in DOMAIN acc : acc[i].date = item.Date THEN acc
                   ELSE Append(acc, [date |-> item.Date, totalSales |-> 0,
                                     transactions |-> 0, revenue |-> 0])
           k    == CHOOSE i \in DOMAIN acc1 : acc1[i].date = item.Date
       IN  salesByDate_overwrite(Tail(items),
             [acc1 EXCEPT ![k] = [date         |-> @.date,
                                  totalSales   |-> item.Units_Sold,
                                  transactions |-> @.transactions + 1,
                                  revenue      |-> @.revenue + item.Revenue_BWP]])

\* the reduce that builds salesByDate: acc holds one entry per date key
RECURSIVE salesByDate(_, _)
salesByDate(items, acc) ==
  IF items = <<>> THEN acc
  ELSE LET item == Head(items)
           acc1 == IF \E i \in DOMAIN acc : acc[i].date = item.Date THEN acc
                   ELSE Append(acc, [date |-> item.Date, totalSales |-> 0,
                                     transactions |-> 0, revenue |-> 0])
           k    == CHOOSE i \in DOMAIN acc1 : acc1[i].date = item.Date
       IN  salesByDate(Tail(items),
             [acc1 EXCEPT ![k] = [date         |-> @.date,
                                  totalSales   |-> @.totalSales + item.Units_Sold,
                                  transactions |-> @.transactions + 1,
                                  revenue      |-> @.revenue + item.Revenue_BWP]])

\* the reduce that builds salesByProduct: acc holds one entry per product key
RECURSIVE salesByProduct(_, _)
salesByProduct(items, acc) ==
  IF items = <<>> THEN acc
  ELSE LET item == Head(items)
           acc1 == IF \E i \in DOMAIN acc : acc[i].product = item.Product THEN acc
                   ELSE Append(acc, [product |-> item.Product, revenue |-> 0,
                                     unitsSold |-> 0, transactions |-> 0])
           k    == CHOOSE i \in DOMAIN acc1 : acc1[i].product = item.Product
       IN  salesByProduct(Tail(items),
             [acc1 EXCEPT ![k] = [product      |-> @.product,
                                  revenue      |-> @.revenue + item.Revenue_BWP,
                                  unitsSold    |-> @.unitsSold + item.Units_Sold,
                                  transactions |-> @.transactions + 1]])

\* salesByDate[date]
EntryOf(byDate, date) == byDate[CHOOSE i \in DOMAIN byDate : byDate[i].date = date]

\* ------------------------------------------------------------ segmentation
\* a score that is not clamped to 1..5
calculateRFMScore_unclamped(value, direction) ==
  IF direction = "asc"
  THEN CeilDiv(value * 100, getMaxValue * quintileSize)
  ELSE CeilDiv((getMaxValue - value) * 100, getMaxValue * quintileSize)

\* AdvancedAnalytics.calculateRFMScore
calculateRFMScore(value, direction) ==
  LET score == IF direction = "asc"
               THEN CeilDiv(value * 100, getMaxValue * quintileSize)
               ELSE CeilDiv((getMaxValue - value) * 100, getMaxValue * quintileSize)
      min5 == IF score < 5 THEN score ELSE 5
  IN  IF min5 > 1 THEN min5 ELSE 1

\* scores, total score and tier of one segment (analyzeCustomerSegments, the
\* body of the map after recency, frequency and monetary are known)
scoreSegment(recency, frequency, monetary) ==
  LET rScore == calculateRFMScore(recency, "desc")
      fScore == calculateRFMScore(frequency, "asc")
      mScore == calculateRFMScore(monetary, "asc")
      totalScore == Rat(rScore + fScore + mScore, 3)
  IN  [ rScore |-> rScore, fScore |-> fScore, mScore |-> mScore,
        score  |-> totalScore,
        segment |-> IF totalScore.num >= 4 * totalScore.den THEN "High-Value"
                    ELSE IF totalScore.num >= 3 * totalScore.den THEN "Mid-Value"
                    ELSE "Low-Value" ]

\* Math.floor(today.diff(lastPurchaseDate, 'days').days): lastPurchaseDate is a
\* local midnight, so the floor drops the time of day of DateTime.now() and
\* leaves the difference of the day numbers; now is the day number of today
recencyDays(now, lastPurchase) == now - toMillis(fromFormat(lastPurchase))

\* AdvancedAnalytics.analyzeCustomerSegments; now is the day of DateTime.now()
analyzeCustomerSegments(data, now) ==
  LET demographics == KeysInOrder(Pluck(data, "Customer_Demographic"))
      segments == [g \in 1..Len(demographics) |->
        LET purchases == GroupOf(data, "Customer_Demographic", demographics[g])
            recency   == recencyDays(now, Last(purchases).Date)
            frequency == Len(purchases)
            monetary  == SumSeq(Pluck(purchases, "Revenue_BWP"))
            scored    == scoreSegment(recency, frequency, monetary)
        IN  [ demographic |-> demographics[g],
              segment     |-> scored.segment,
              recency     |-> recency,
              frequency   |-> frequency,
              monetary    |-> monetary,
              score       |-> scored.score ]]
  \* b.score - a.score: a score is a whole number of thirds, compared in thirds
  IN  StableSort(segments, [g \in 1..Len(segments) |->
                              -((3 * segments[g].score.num) \div segments[g].score.den)])

\* --------------------------------------------------------------- inventory
\* ABC category of a cumulative share cumRevenue / totalRevenue * 100; the
\* share is NaN when totalRevenue is 0 and every comparison with NaN is false
categoryOf(cumRevenue, totalRevenue) ==
  IF totalRevenue = 0 THEN "C"
  ELSE IF 100 * cumRevenue <= ThresholdA * totalRevenue THEN "A"
  ELSE IF 100 * cumRevenue <= ThresholdB * totalRevenue THEN "B"
  ELSE "C"

\* the service-level multiplier z in hundredths: 1.96 in analyzeInventory,
\* 1.65 in optimizeInventory
ZAnalyze == 196
ZOptimize == 165

\* the integer square root of n >= 0, rounded down
RECURSIVE Isqrt(_)
Isqrt(n) ==
  IF n < 2 THEN n
  ELSE LET r == 2 * Isqrt(n \div 4)
       IN  IF (r + 1) * (r + 1) <= n THEN r + 1 ELSE r

\* Math.ceil(Math.sqrt(x)): NaN for x < 0 and for NaN
CeilSqrt(x) ==
  IF x.den = 0 THEN x
  ELSE IF x.num < 0 THEN NaN
  ELSE LET f == Isqrt(x.num \div x.den)
       IN  Num(IF f * f * x.den >= x.num THEN f ELSE f + 1)

\* Math.ceil of a number
MathCeil(x) == IF x.den = 0 THEN x ELSE Num(CeilDiv(x.num, x.den))

\* the sum of squared deviations from the mean, over divisor
varianceOver(xs, divisor) ==
  LET n == Len(xs)
  IN  Rat(n * SumSeq([i \in 1..n |-> xs[i] * xs[i]]) - SumSeq(xs) * SumSeq(xs),
          n * divisor)

\* the variance under the square root of analyzeInventory: divided by
\* items.length
populationVariance(xs) == varianceOver(xs, Len(xs))

\* the variance under math.std(salesArray) (mathjs, 'unbiased'): divided by
\* length - 1, and 0 for a single value
sampleVariance(xs) == IF Len(xs) = 1 THEN Num(0) ELSE varianceOver(xs, Len(xs) - 1)

\* a safety stock with z as a divisor
safetyStock_divided(z, variance, leadTime) ==
  IF variance.den = 0 \/ leadTime.den = 0 \/ leadTime.num < 0 THEN NaN
  ELSE CeilSqrt(Rat(10000 * variance.num * leadTime.num,
                    z * z * variance.den * leadTime.den))

\* Math.ceil(z * standardDeviation * Math.sqrt(avgLeadTime)), z in
\* hundredths and standardDeviation the square root of variance: the
\* ceiling of the square root of z^2 * variance * leadTime
safetyStock(z, variance, leadTime) ==
  IF variance.den = 0 \/ leadTime.den = 0 \/ leadTime.num < 0 THEN NaN
  ELSE CeilSqrt(Rat(z * z * variance.num * leadTime.num,
                    10000 * variance.den * leadTime.den))

\* Math.ceil(avgDailySales * avgLeadTime + safetyStock)
reorderPoint(avgSales, leadTime, safety) ==
  MathCeil(RatAdd(RatMul(avgSales, leadTime), safety))

\* AdvancedAnalytics.analyzeInventory (RetailAnalytics.analyzeInventory has
\* the same body)
analyzeInventory(data) ==
  LET products == KeysInOrder(Pluck(data, "Product"))
      inventoryMetrics == [p \in 1..Len(products) |->
        LET items == GroupOf(data, "Product", products[p])
            units == SumSeq(Pluck(items, "Units_Sold"))
        IN  [ product         |-> products[p],
              revenue         |-> SumSeq(Pluck(items, "Revenue_BWP")),
              stock_level     |-> Last(items).Stock_Level,
              avg_daily_sales |-> Rat(units, Len(items)),
              lead_time       |-> Rat(SumSeq(Pluck(items, "Lead_Time_Days")), Len(items)),
              safety_stock    |->
                safetyStock(ZAnalyze, populationVariance(Pluck(items, "Units_Sold")),
                            Rat(SumSeq(Pluck(items, "Lead_Time_Days")), Len(items))),
              stock_coverage  |-> Rat(Last(items).Stock_Level * Len(items), units) ]]
      totalRevenue == SumSeq(Pluck(inventoryMetrics, "revenue"))
      enrichedMetrics ==
        StableSort(inventoryMetrics,
                   [p \in 1..Len(inventoryMetrics) |-> -inventoryMetrics[p].revenue])
      cumulative(p) == SumSeq(SubSeq(Pluck(enrichedMetrics, "revenue"), 1, p))
  IN  [p \in 1..Len(enrichedMetrics) |->
        [ product    |-> enrichedMetrics[p].product,
          revenue    |-> enrichedMetrics[p].revenue,
          metrics    |-> [ stock_level     |-> enrichedMetrics[p].stock_level,
                           reorder_point   |->
                             reorderPoint(enrichedMetrics[p].avg_daily_sales,
                                          enrichedMetrics[p].lead_time,
                                          enrichedMetrics[p].safety_stock),
                           avg_daily_sales |-> enrichedMetrics[p].avg_daily_sales,
                           lead_time       |-> enrichedMetrics[p].lead_time,
                           safety_stock    |-> enrichedMetrics[p].safety_stock,
                           stock_coverage  |-> enrichedMetrics[p].stock_coverage ],
          percentage |-> Rat(100 * enrichedMetrics[p].revenue, totalRevenue),
          category   |-> categoryOf(cumulative(p), totalRevenue) ]]

\* AdvancedAnalytics.optimizeInventory: inventory_metrics (the economic order
\* quantity and the recommendations are not part of this model)
optimizeInventory(data) ==
  LET products == KeysInOrder(Pluck(data, "Product"))
  IN  [p \in 1..Len(products) |->
        LET items == GroupOf(data, "Product", products[p])
            salesArray == Pluck(items, "Units_Sold")
            avgSales == Rat(SumSeq(salesArray), Len(items))
            avgLeadTime == Rat(SumSeq(Pluck(items, "Lead_Time_Days")), Len(items))
            safety == safetyStock(ZOptimize, sampleVariance(salesArray), avgLeadTime)
        IN  [ product |-> products[p],
              metrics |-> [ avg_daily_sales |-> avgSales,
                            lead_time       |-> avgLeadTime,
                            avg_stock       |-> Rat(SumSeq(Pluck(items, "Stock_Level")),
                                                    Len(items)),
                            safety_stock    |-> safety,
                            reorder_point   |-> reorderPoint(avgSales, avgLeadTime, safety) ]]]
\* ---------------------------------------------------------------- pipeline
\* the array after data.sort(...) by parsed date (processData sorts in place)
sortByDate(data) ==
  StableSort(data, [i \in 1..Len(data) |-> toMillis(fromFormat(data[i].Date))])

\* the Date of a record that has no Date field (undefined)
MissingDate == <<>>

\* a rejected promise
Threw(name) == [error |-> name]

\* AdvancedAnalytics.processData: the value the returned promise settles to
processData(data, now) ==
  \* a record without Date: DateTime.fromFormat(undefined, ...) throws, in the
  \* sort's comparator (two records or more) or in analyzeCustomerSegments
  IF \E i \in DOMAIN data : data[i].Date = MissingDate THEN Threw("InvalidArgumentError")
  ELSE
  LET sortedData == sortByDate(data)
      byDate == salesByDate(sortedData, <<>>)
      dates == SortStrings(Pluck(byDate, "date"))
      salesValues == [i \in 1..Len(dates) |-> EntryOf(byDate, dates[i]).totalSales]
      movingAverage == calculateMovingAverage(salesValues, Window)
      predictions == exponentialSmoothing(salesValues, Alpha, Horizon)
      byProduct == salesByProduct(sortedData, <<>>)
      totalRevenue == SumSeq(Pluck(byProduct, "revenue"))
      totalUnits == SumSeq(Pluck(byProduct, "unitsSold"))
      ranked == StableSort(byProduct, [p \in 1..Len(byProduct) |-> -byProduct[p].revenue])
  IN  \* addDays(undefined, ...) : luxon's fromFormat throws on a missing string
      IF Len(dates) = 0 /\ Len(predictions) > 0 THEN Threw("InvalidArgumentError")
      ELSE
      [ overall_metrics |->
          [ total_revenue |-> totalRevenue,
            total_units   |-> totalUnits,
            average_ticket_size |->
              Rat(totalRevenue, SumSeq(Pluck(byDate, "transactions"))) ],
        top_products |->
          [p \in 1..(IF Len(ranked) < TopN THEN Len(ranked) ELSE TopN) |->
            [ product |-> ranked[p].product,
              revenue |-> ranked[p].revenue,
              units   |-> ranked[p].unitsSold,
              average_price |-> Rat(ranked[p].revenue, ranked[p].unitsSold) ]],
        daily_sales |->
          [i \in 1..Len(dates) |->
            [ date         |-> dates[i],
              units_sold   |-> EntryOf(byDate, dates[i]).totalSales,
              transactions |-> EntryOf(byDate, dates[i]).transactions ]],
        historical |->
          [i \in 1..Len(dates) |->
            [ date |-> dates[i], actual |-> salesValues[i],
              moving_average |-> movingAverage[i] ]],
        forecast |->
          [i \in 1..Len(predictions) |->
            [ date |-> addDays(Last(dates), i), predicted |-> predictions[i] ]],
        customerSegments |-> analyzeCustomerSegments(sortedData, now),
        inventoryInsights |-> analyzeInventory(sortedData) ]

\* --------------------------------------------------------- RetailAnalytics
\* a / b on finite numbers (x / 0 is NaN or +-Infinity)
RatDiv(a, b) == IF a.den = 0 \/ b.den = 0 THEN NaN ELSE Rat(a.num * b.den, a.den * b.num)
RatSub(a, b) == RatAdd(a, RatMul(Num(-1), b))
\* a <= b; false when either side is NaN
RatLeq(a, b) ==
  /\ ~IsNaN(a) /\ ~IsNaN(b)
  /\ IF a.den = 0 THEN a.num < 0 \/ (b.den = 0 /\ b.num > 0)
     ELSE IF b.den = 0 THEN b.num > 0
     ELSE a.num * b.den <= b.num * a.den

\* RetailAnalytics.groupByDate
RECURSIVE groupByDate(_, _)
groupByDate(items, acc) ==
  IF items = <<>> THEN acc
  ELSE LET item == Head(items)
           acc1 == IF \E i \in DOMAIN acc : acc[i].date = item.Date THEN acc
                   ELSE Append(acc, [date |-> item.Date, totalSales |-> 0,
                                     transactions |-> 0])
           k    == CHOOSE i \in DOMAIN acc1 : acc1[i].date = item.Date
       IN  groupByDate(Tail(items),
             [acc1 EXCEPT ![k] = [date         |-> @.date,
                                  totalSales   |-> @.totalSales + item.Units_Sold,
                                  transactions |-> @.transactions + 1]])

\* a groupByProduct whose running means read the counter before its increment
RECURSIVE groupByProduct_stale(_, _)
groupByProduct_stale(items, acc) ==
  IF items = <<>> THEN acc
  ELSE LET item == Head(items)
           acc1 == IF \E i \in DOMAIN acc : acc[i].product = item.Product THEN acc
                   ELSE Append(acc, [product |-> item.Product, revenue |-> 0,
                                     unitsSold |-> 0, avgPrice |-> Num(0),
                                     avgCompetitionPrice |-> Num(0),
                                     transactions |-> 0])
           k    == CHOOSE i \in DOMAIN acc1 : acc1[i].product = item.Product
           n    == acc1[k].transactions
       IN  groupByProduct_stale(Tail(items),
             [acc1 EXCEPT ![k] =
                [ product      |-> @.product,
                  revenue      |-> @.revenue + item.Revenue_BWP,
                  unitsSold    |-> @.unitsSold + item.Units_Sold,
                  transactions |-> n + 1,
                  avgPrice     |->
                    RatDiv(RatAdd(RatMul(@.avgPrice, Num(n - 1)),
                                  Num(item.Price_per_Unit_BWP)), Num(n)),
                  avgCompetitionPrice |->
                    RatDiv(RatAdd(RatMul(@.avgCompetitionPrice, Num(n - 1)),
                                  Num(item.Competition_Price_BWP)), Num(n)) ]])

\* RetailAnalytics.groupByProduct: the running means use the counter after
\* its increment
RECURSIVE groupByProduct(_, _)
groupByProduct(items, acc) ==
  IF items = <<>> THEN acc
  ELSE LET item == Head(items)
           acc1 == IF \E i \in DOMAIN acc : acc[i].product = item.Product THEN acc
                   ELSE Append(acc, [product |-> item.Product, revenue |-> 0,
                                     unitsSold |-> 0, avgPrice |-> Num(0),
                                     avgCompetitionPrice |-> Num(0),
                                     transactions |-> 0])
           k    == CHOOSE i \in DOMAIN acc1 : acc1[i].product = item.Product
           n    == acc1[k].transactions + 1
       IN  groupByProduct(Tail(items),
             [acc1 EXCEPT ![k] =
                [ product      |-> @.product,
                  revenue      |-> @.revenue + item.Revenue_BWP,
                  unitsSold    |-> @.unitsSold + item.Units_Sold,
                  transactions |-> n,
                  avgPrice     |->
                    RatDiv(RatAdd(RatMul(@.avgPrice, Num(n - 1)),
                                  Num(item.Price_per_Unit_BWP)), Num(n)),
                  avgCompetitionPrice |->
                    RatDiv(RatAdd(RatMul(@.avgCompetitionPrice, Num(n - 1)),
                                  Num(item.Competition_Price_BWP)), Num(n)) ]])

\* RetailAnalytics.maxDate
maxDate(date1, date2) ==
  IF toMillis(fromFormat(date1)) > toMillis(fromFormat(date2)) THEN date1 ELSE date2

\* RetailAnalytics.groupByDemographic
RECURSIVE Retail_groupByDemographic(_, _)
Retail_groupByDemographic(items, acc) ==
  IF items = <<>> THEN acc
  ELSE LET item == Head(items)
           acc1 == IF \E i \in DOMAIN acc : acc[i].demographic = item.Customer_Demographic
                   THEN acc
                   ELSE Append(acc, [demographic |-> item.Customer_Demographic,
                                     totalRevenue |-> 0, totalTransactions |-> 0,
                                     lastPurchaseDate |-> item.Date])
           k    == CHOOSE i \in DOMAIN acc1 : acc1[i].demographic = item.Customer_Demographic
       IN  Retail_groupByDemographic(Tail(items),
             [acc1 EXCEPT ![k] =
                [ demographic       |-> @.demographic,
                  totalRevenue      |-> @.totalRevenue + item.Revenue_BWP,
                  totalTransactions |-> @.totalTransactions + 1,
                  lastPurchaseDate  |-> maxDate(@.lastPurchaseDate, item.Date) ]])

\* RetailAnalytics.calculateScore: Math.ceil(Math.random() * 5), whatever the
\* arguments; random is the value of Math.random() in hundredths
calculateScore(value, direction, random) == CeilDiv(random * 5, 100)

\* RetailAnalytics.segmentCustomers; draws[j] is the j-th value of Math.random()
segmentCustomers(data, now, draws) ==
  LET customerData == Retail_groupByDemographic(data, <<>>)
  IN  [g \in 1..Len(customerData) |->
        LET stats  == customerData[g]
            recency == recencyDays(now, stats.lastPurchaseDate)
            rScore == calculateScore(recency, "desc", draws[3 * g - 2])
            fScore == calculateScore(stats.totalTransactions, "asc", draws[3 * g - 1])
            mScore == calculateScore(stats.totalRevenue, "asc", draws[3 * g])
            totalScore == Rat(rScore + fScore + mScore, 3)
        IN  [ demographic |-> stats.demographic,
              segment     |-> IF totalScore.num >= 4 * totalScore.den THEN "High-Value"
                              ELSE IF totalScore.num >= 3 * totalScore.den THEN "Mid-Value"
                              ELSE "Low-Value",
              recency     |-> recency,
              frequency   |-> stats.totalTransactions,
              monetary    |-> stats.totalRevenue,
              score       |-> totalScore ]]

\* movingAverage[i] || null : null, 0 and NaN are falsy
OrNull(v) == IF v = Null \/ v.num = 0 THEN Null ELSE v

\* RetailAnalytics.makePredictions
makePredictions(data) ==
  LET byDate == groupByDate(data, <<>>)
      dates == SortStrings(Pluck(byDate, "date"))
      salesValues == [i \in 1..Len(dates) |-> EntryOf(byDate, dates[i]).totalSales]
      movingAverage == calculateMovingAverage(salesValues, Window)
      predictions == Retail_exponentialSmoothing(salesValues, Alpha, Horizon)
  IN  [ historical |->
          [i \in 1..Len(dates) |->
            [ date |-> dates[i], actual |-> salesValues[i],
              moving_average |-> OrNull(movingAverage[i]) ]],
        forecast |->
          [i \in 1..Len(predictions) |->
            [ date |-> addDays(Last(dates), i), predicted |-> predictions[i] ]] ]

\* RetailAnalytics.analyzeSales
analyzeSales(data) ==
  LET byProduct == groupByProduct(data, <<>>)
      byDate == groupByDate(data, <<>>)
      totalRevenue == SumSeq(Pluck(data, "Revenue_BWP"))
      ranked == StableSort(byProduct, [p \in 1..Len(byProduct) |-> -byProduct[p].revenue])
  IN  [ overall_metrics |->
          [ total_revenue |-> totalRevenue,
            total_units   |-> SumSeq(Pluck(data, "Units_Sold")),
            average_ticket_size |-> Rat(totalRevenue, Len(byDate)) ],
        top_products |->
          [p \in 1..(IF Len(ranked) < TopN THEN Len(ranked) ELSE TopN) |->
            [ product |-> ranked[p].product,
              revenue |-> ranked[p].revenue,
              units   |-> ranked[p].unitsSold,
              average_price |-> ranked[p].avgPrice ]],
        daily_sales |->
          [i \in 1..Len(byDate) |->
            [ date         |-> byDate[i].date,
              units_sold   |-> byDate[i].totalSales,
              transactions |-> byDate[i].transactions ]] ]

\* RetailAnalytics.analyzeCompetition
Retail_analyzeCompetition(data) ==
  LET productStats == groupByProduct(data, <<>>)
  IN  [p \in 1..Len(productStats) |->
        LET stats == productStats[p]
            priceIndex == RatMul(RatDiv(stats.avgPrice, stats.avgCompetitionPrice), Num(100))
        IN  [ product |-> stats.product,
              our_price |-> stats.avgPrice,
              competition_price |-> stats.avgCompetitionPrice,
              price_difference |-> RatSub(stats.avgPrice, stats.avgCompetitionPrice),
              price_index |-> priceIndex,
              is_competitive |-> RatLeq(priceIndex, Num(105)),
              units_sold |-> stats.unitsSold,
              revenue |-> stats.revenue,
              margin |-> RatMul(RatDiv(RatSub(stats.avgPrice, stats.avgCompetitionPrice),
                                       stats.avgPrice), Num(100)) ]]

\* RetailAnalytics.analyzeData: the value the returned promise settles to
analyzeData(data, now, draws) ==
  IF Len(data) = 0 THEN Threw("InvalidArgumentError")
  ELSE [ salesAnalysis       |-> analyzeSales(data),
         customerSegments    |-> segmentCustomers(data, now, draws),
         inventoryInsights   |-> analyzeInventory(data),
         predictions         |-> makePredictions(data),
         competitiveAnalysis |-> Retail_analyzeCompetition(data) ]
\* -------------------------------------------------- process route, sales
\* JavaScript values of a raw document field: a number, a string (character
\* codes) or undefined
JsNumber(n) == [t |-> "number", n |-> n, s |-> <<>>]
JsString(str) == [t |-> "string", n |-> 0, s |-> str]
JsUndefined == [t |-> "undefined", n |-> 0, s |-> <<>>]

Dash == 45
IsDigit(c) == c >= Zero /\ c <= Zero + 9

\* the value of the longest prefix of digits of str after position i, read
\* as a decimal integer continuing acc
RECURSIVE DigitsFrom(_, _, _)
DigitsFrom(str, i, acc) ==
  IF i > Len(str) \/ ~IsDigit(str[i]) THEN acc
  ELSE DigitsFrom(str, i + 1, 10 * acc + (str[i] - Zero))

\* parseFloat / parseInt(_, 10) of a string without decimal point or
\* exponent: an optional sign and the leading digits, NaN if there are none
parseNumber(str) ==
  LET neg   == Len(str) > 0 /\ str[1] = Dash
      start == IF neg THEN 2 ELSE 1
  IN  IF start > Len(str) \/ ~IsDigit(str[start]) THEN NaN
      ELSE Num((IF neg THEN -1 ELSE 1) * DigitsFrom(str, start, 0))

\* v || '0' : undefined, the empty string, 0 and NaN are falsy
OrZeroString(v) ==
  IF v.t = "undefined" \/ (v.t = "string" /\ v.s = <<>>) THEN <<Zero>> ELSE v.s

\* typeof v === 'number' ? v : parseFloat(v || '0')   (parseInt likewise)
coerceNumber(v) == IF v.t = "number" THEN Num(v.n) ELSE parseNumber(OrZeroString(v))

\* the string yyyy-MM-dd of a calendar date (toISOString().split('T')[0])
toISODate(dt) ==
  << Zero + (dt.year \div 1000), Zero + ((dt.year \div 100) % 10),
     Zero + ((dt.year \div 10) % 10), Zero + (dt.year % 10), Dash,
     Zero + (dt.month \div 10), Zero + (dt.month % 10), Dash,
     Zero + (dt.day \div 10), Zero + (dt.day % 10) >>

Iso(d, m, y) == toISODate([day |-> d, month |-> m, year |-> y])

InvalidDate == [day |-> 0, month |-> 0, year |-> 0]

\* new Date(v) for a string in yyyy-MM-dd form; any other value of the
\* inputs is an Invalid Date. The server's time zone is taken to be UTC.
newDate(v) ==
  IF /\ v.t = "string"
     /\ Len(v.s) = 10
     /\ v.s[5] = Dash /\ v.s[8] = Dash
     /\ \A i \in {1, 2, 3, 4, 6, 7, 9, 10} : IsDigit(v.s[i])
  THEN LET dt == [ day   |-> (v.s[9] - Zero) * 10 + (v.s[10] - Zero),
                   month |-> (v.s[6] - Zero) * 10 + (v.s[7] - Zero),
                   year  |-> (v.s[1] - Zero) * 1000 + (v.s[2] - Zero) * 100
                             + (v.s[3] - Zero) * 10 + (v.s[4] - Zero) ]
       IN  IF dt.month \in 1..12 /\ dt.day >= 1 /\ dt.day <= DaysInMonth(dt.month, dt.year)
           THEN dt ELSE InvalidDate
  ELSE InvalidDate

\* Date.getDay(): 0 is Sunday
getDay(dt) == DayNumber(dt) % 7

\* Step 1 of processSalesData: the map and the filter
cleanSales(data) ==
  LET mapped == [i \in 1..Len(data) |->
                   [ date     |-> newDate(data[i].date),
                     amount   |-> coerceNumber(data[i].amount),
                     quantity |-> coerceNumber(data[i].quantity),
                     product  |-> data[i].product ]]
  IN  SelectSeq(mapped, LAMBDA item :
        ~IsNaN(item.amount) /\ ~IsNaN(item.quantity) /\ item.date # InvalidDate)

\* sum of rationals
RECURSIVE RatSum(_)
RatSum(s) == IF s = <<>> THEN Num(0) ELSE RatAdd(Head(s), RatSum(Tail(s)))

\* mean amount of the items of recentData that pass keep, over avgAmount;
\* 1 if none passes, and (factor || 1) turns 0 and NaN into 1
patternFactor(matching, avgAmount) ==
  IF Len(matching) = 0 THEN Num(1)
  ELSE LET f == RatDiv(RatDiv(RatSum(Pluck(matching, "amount")), Num(Len(matching))),
                       avgAmount)
       IN  IF IsNaN(f) \/ f.num = 0 THEN Num(1) ELSE f

\* the minimum number of usable records
MinSales == 3
\* days forecast, size of the recent window, and of the trend window
SalesHorizon == 30
RecentWindow == 30
TrendWindow == 10

\* processSalesData: the value the returned promise settles to. draws[j] is
\* the j-th value of Math.random() in hundredths. A predicted value is kept
\* as its factors (the code multiplies them and rounds to 2 decimals);
\* monthlyGrowth and predictedGrowth are not part of this model.
processSalesData(data, draws) ==
  IF Len(data) < MinSales
  THEN [ error   |-> "insufficient_data",
         message |-> "Not enough sales data to generate insights. Please upload more data." ]
  ELSE
  LET cleaned == cleanSales(data)
  IN  IF Len(cleaned) < MinSales
      THEN [ error   |-> "invalid_data",
             message |-> "Sales data contains too many invalid entries. Please check your data format." ]
      ELSE
      LET processedData ==
            StableSort(cleaned, [i \in 1..Len(cleaned) |-> DayNumber(cleaned[i].date)])
          n == Len(processedData)
          trend(i) ==
            LET prevAmount == IF i > 1 THEN processedData[i - 1].amount
                              ELSE processedData[i].amount
            IN  RatDiv(RatSub(processedData[i].amount, prevAmount),
                       IF prevAmount.num = 0 THEN Num(1) ELSE prevAmount)
          lastDate == processedData[n].date
          recentData == SubSeq(processedData,
                               IF n > RecentWindow THEN n - RecentWindow + 1 ELSE 1, n)
          avgAmount == RatDiv(RatSum(Pluck(recentData, "amount")), Num(Len(recentData)))
          avgQuantity == RatDiv(RatSum(Pluck(recentData, "quantity")), Num(Len(recentData)))
          avgTrend ==
            RatDiv(RatSum([i \in 1..(IF n < TrendWindow THEN n ELSE TrendWindow) |->
                             trend(n - (IF n < TrendWindow THEN n ELSE TrendWindow) + i)]),
                   Num(TrendWindow))
          totalSales == RatSum(Pluck(processedData, "amount"))
          products == KeysInOrder(Pluck(
                        SelectSeq(processedData, LAMBDA item : item.product # ""), "product"))
          productSales == [p \in 1..Len(products) |->
                             [ product |-> products[p],
                               amount  |-> RatSum(Pluck(
                                  SelectSeq(processedData,
                                            LAMBDA item : item.product = products[p]),
                                  "amount")) ]]
          \* amounts of the model are integers: the comparator's sign is that
          \* of the numerators
          ranked == StableSort(productSales,
                      [p \in 1..Len(productSales) |-> -productSales[p].amount.num])
      IN  [ historicalData |->
              [i \in 1..n |->
                [ date     |-> toISODate(processedData[i].date),
                  amount   |-> processedData[i].amount,
                  quantity |-> processedData[i].quantity,
                  product  |-> processedData[i].product ]],
            predictions |->
              [i \in 1..SalesHorizon |->
                LET predictionDate == plus(lastDate, i)
                    scale == IF i < 5 THEN Rat(i, 5) ELSE Num(1)
                    factors(avg, draw) ==
                      [ avg         |-> avg,
                        dayFactor   |-> patternFactor(
                            SelectSeq(recentData,
                              LAMBDA d : getDay(d.date) = getDay(predictionDate)), avgAmount),
                        monthFactor |-> patternFactor(
                            SelectSeq(recentData,
                              LAMBDA d : d.date.month = predictionDate.month), avgAmount),
                        trendFactor |-> RatAdd(Num(1), RatMul(avgTrend, scale)),
                        jitter      |-> Rat(9750 + 5 * draw, 10000) ]
                IN  [ date              |-> toISODate(predictionDate),
                      predicted         |-> factors(avgAmount, draws[2 * i - 1]),
                      predictedQuantity |-> factors(avgQuantity, draws[2 * i]),
                      confidence        |-> IF 90 - i < 50 THEN Rat(1, 2)
                                            ELSE Rat(90 - i, 100) ]],
            topProducts |-> SubSeq(ranked, 1, IF Len(ranked) < TopN THEN Len(ranked) ELSE TopN),
            metrics |->
              [ avgSale       |-> RatDiv(MathRound(RatMul(RatDiv(totalSales, Num(n)), Num(100))),
                                         Num(100)),
                totalSales    |-> RatDiv(MathRound(RatMul(totalSales, Num(100))), Num(100)),
                totalQuantity |-> RatSum(Pluck(processedData, "quantity")) ] ]

\* ---------------------------------------- process route, other processors
\* the map and the filter of processCustomerData
cleanCustomers(data) ==
  LET mapped == [i \in 1..Len(data) |->
                   [ id        |-> data[i].id,
                     purchases |-> coerceNumber(data[i].purchases),
                     spent     |-> coerceNumber(data[i].spent) ]]
  IN  SelectSeq(mapped, LAMBDA c : ~IsNaN(c.purchases) /\ ~IsNaN(c.spent))

\* processCustomerData: the value the returned promise settles to (the
\* segment percentages, the segment revenues and avgOrderValue are not part
\* of this model)
processCustomerData(data) ==
  IF Len(data) < 3
  THEN [ error   |-> "insufficient_data",
         message |-> "Not enough customer data to generate insights. Please upload more data." ]
  ELSE
  LET customers == cleanCustomers(data)
      avgSpent(c) == RatDiv(c.spent, IF RatLeq(c.purchases, Num(1)) THEN Num(1)
                                     ELSE c.purchases)
      segmentOf(c) ==
        IF ~RatLeq(avgSpent(c), Num(100)) /\ ~RatLeq(c.purchases, Num(5)) THEN "High Value"
        ELSE IF ~RatLeq(avgSpent(c), Num(50)) \/ ~RatLeq(c.purchases, Num(3)) THEN "Mid Value"
        ELSE "Low Value"
      count(name) == Len(SelectSeq(customers, LAMBDA c : segmentOf(c) = name))
      totalRevenue == RatSum(Pluck(customers, "spent"))
      \* spent values of the model are integers
      ranked == StableSort(customers, [i \in 1..Len(customers) |-> -customers[i].spent.num])
  IN  IF Len(customers) < 3
      THEN [ error   |-> "invalid_data",
             message |-> "Customer data contains too many invalid entries. Please check your data format." ]
      ELSE [ segments |-> [ high |-> count("High Value"), mid |-> count("Mid Value"),
                            low  |-> count("Low Value") ],
             topCustomers |->
               SubSeq(ranked, 1, IF Len(ranked) < TopN THEN Len(ranked) ELSE TopN),
             metrics |->
               [ totalCustomers   |-> Len(customers),
                 avgLifetimeValue |->
                   RatDiv(MathRound(RatMul(RatDiv(totalRevenue, Num(Len(customers))),
                                           Num(100))), Num(100)),
                 totalRevenue     |->
                   RatDiv(MathRound(RatMul(totalRevenue, Num(100))), Num(100)) ] ]

\* the map, the filter and the defaults of processInventoryData
cleanInventory(data) ==
  LET mapped == [i \in 1..Len(data) |->
                   [ id           |-> data[i].id,
                     quantity     |-> coerceNumber(data[i].quantity),
                     reorderLevel |-> coerceNumber(data[i].reorderLevel),
                     salesRate    |-> coerceNumber(data[i].salesRate) ]]
      kept == SelectSeq(mapped, LAMBDA item : ~IsNaN(item.quantity))
      Falsy(x) == IsNaN(x) \/ x.num = 0
  IN  [i \in 1..Len(kept) |->
        [ id           |-> kept[i].id,
          quantity     |-> kept[i].quantity,
          reorderLevel |->
            IF Falsy(kept[i].reorderLevel)
            THEN LET fifth == kept[i].quantity.num \div (5 * kept[i].quantity.den)
                 IN  Num(IF fifth < 5 THEN 5 ELSE fifth)
            ELSE kept[i].reorderLevel,
          salesRate    |-> IF Falsy(kept[i].salesRate) THEN Num(1) ELSE kept[i].salesRate ]]

\* processInventoryData: the value the returned promise settles to (the
\* reorder recommendations and stockValue are not part of this model)
processInventoryData(data) ==
  IF Len(data) < 2
  THEN [ error   |-> "insufficient_data",
         message |-> "Not enough inventory data to generate insights. Please upload more data." ]
  ELSE
  LET inventory == cleanInventory(data)
      daysUntilReorder(item) ==
        IF item.salesRate.num > 0
        THEN MathRound(RatDiv(RatSub(item.quantity, item.reorderLevel), item.salesRate))
        ELSE Num(999)
      status(item) ==
        IF RatLeq(daysUntilReorder(item), Num(7)) THEN "Critical"
        ELSE IF RatLeq(daysUntilReorder(item), Num(30)) THEN "Warning"
        ELSE "Good"
      categorized(name) == SelectSeq(inventory, LAMBDA item : status(item) = name)
      totalStock == RatSum(Pluck(inventory, "quantity"))
  IN  IF Len(inventory) < 2
      THEN [ error   |-> "invalid_data",
             message |-> "Inventory data contains too many invalid entries. Please check your data format." ]
      ELSE [ inventoryStatus |-> [ critical |-> Len(categorized("Critical")),
                                   warning  |-> Len(categorized("Warning")),
                                   good     |-> Len(categorized("Good")) ],
             lowStock |->
               [i \in 1..Len(categorized("Critical")) |->
                 [ id            |-> categorized("Critical")[i].id,
                   currentStock  |-> categorized("Critical")[i].quantity,
                   daysRemaining |-> daysUntilReorder(categorized("Critical")[i]) ]],
             metrics |->
               [ totalItems   |-> Len(inventory),
                 totalStock   |-> totalStock,
                 averageStock |-> MathRound(RatDiv(totalStock, Num(Len(inventory)))) ] ]

\* ------------------------------------------------ process route, handlers
\* NextResponse.json(body, { status })
json(status, body) == [status |-> status, body |-> body]

\* POST of the process route. data is collection.find({}).toArray() of the
\* collection dataType + "_data"; up says whether getDbClient() succeeds;
\* viaGet says that GET passed its dummy request, which has no nextUrl, so
\* that the catch block itself throws a TypeError.
POST(dataType, data, up, viaGet, draws) ==
  IF ~up
  THEN IF viaGet THEN Threw("TypeError")
       ELSE json(500, [ error   |-> "processing_error",
                        message |-> "MONGODB_URI not set in environment variables" ])
  ELSE IF Len(data) = 0
  THEN json(200, [ type |-> dataType, processed |-> FALSE, error |-> "no_data",
                   message |-> "No " \o dataType \o " data found. Please upload data first." ])
  ELSE IF dataType \notin {"sales", "customer", "inventory"}
  THEN json(400, [error |-> "Unsupported data type"])
  ELSE LET respond(results) ==
             IF "error" \in DOMAIN results
             THEN json(200, [ type |-> dataType, processed |-> FALSE,
                              error |-> results.error, message |-> results.message ])
             ELSE json(200, [type |-> dataType, processed |-> TRUE, results |-> results])
       IN  respond(IF dataType = "sales" THEN processSalesData(data, draws)
                   ELSE IF dataType = "customer" THEN processCustomerData(data)
                   ELSE processInventoryData(data))

\* GET of the process route; type is the query parameter, "" when absent
GET(type, data, up, draws) ==
  IF type = ""
  THEN json(400, [error |-> "Data type parameter is required"])
  ELSE LET caught(answer) ==
             IF "status" \in DOMAIN answer THEN answer
             ELSE json(500, [error |-> "Cannot read properties of undefined"])
       IN  caught(POST(type, data, up, TRUE, draws))

\* POST of the process-data route: the response and what ml_results holds
\* afterwards. session is "" without a session; data is the user's documents.
processDataRoute(session, data, up, now, before) ==
  IF session = ""
  THEN [response |-> json(401, [error |-> "Unauthorized"]), saved |-> before, open |-> 0]
  ELSE IF ~up
  THEN [ response |-> json(500, [ error   |-> "processing_error",
                                  message |-> "connect ECONNREFUSED" ]),
         saved    |-> before, open |-> 0 ]
  ELSE IF Len(data) = 0
  THEN [ response |-> json(404, [ error   |-> "No data found",
                                  message |-> "Please upload your sales data first" ]),
         saved    |-> before, open |-> 0 ]
  ELSE LET respond(results) ==
             \* the catch block answers without closing the client
             IF "error" \in DOMAIN results
             THEN [ response |-> json(500, [ error   |-> "processing_error",
                                             message |-> results.error ]),
                    saved    |-> before, open |-> 1 ]
             ELSE [ response |-> json(200, [success |-> TRUE, results |-> results]),
                    saved    |-> results, open |-> 0 ]
       IN  respond(processData(data, now))

\* ------------------------------------------------------------ upload route
\* limit(10) of the GET handler
PreviewLimit == 10

\* formData.get("file") when the form has no file
NoFile == [none |-> TRUE]

\* POST of the upload route, sent by the user of session ("" without a
\* session) with file, a name and what Papa.parse makes of its content (the
\* rows, and whether it reports errors). collection is sales_data, the
\* default of the type parameter, and files holds the names in os.tmpdir().
\* The result is the response, the collection and the directory afterwards,
\* and the number of clients left open. createdAt is not part of this model.
upload_POST(session, file, collection, files, up) ==
  LET toLowerCase(name) ==
        [i \in 1..Len(name) |-> IF name[i] \in 65..90 THEN name[i] + 32 ELSE name[i]]
      endsWith(name, suffix) ==
        /\ Len(name) >= Len(suffix)
        /\ SubSeq(name, Len(name) - Len(suffix) + 1, Len(name)) = suffix
      \* every return after writeFileSync but the last leaves the file behind
      failed(status, message) ==
        [ response   |-> json(status, [error |-> message]),
          collection |-> collection,
          files      |-> files \cup {file.name},
          open       |-> 0 ]
  IN  IF session = ""
      THEN [ response |-> json(401, [error |-> "Unauthorized"]),
             collection |-> collection, files |-> files, open |-> 0 ]
      ELSE IF file = NoFile
      THEN [ response |-> json(400, [error |-> "No file uploaded"]),
             collection |-> collection, files |-> files, open |-> 0 ]
      ELSE IF endsWith(toLowerCase(file.name), <<46, 99, 115, 118>>)
      THEN IF file.malformed THEN failed(400, "Error parsing CSV")
           ELSE IF Len(file.rows) = 0 THEN failed(400, "No valid data found in file")
           ELSE IF ~up THEN failed(500, "MONGODB_URI not set")
           ELSE [ response |->
                    json(200, [ message       |-> "Uploaded to sales_data",
                                type          |-> "sales",
                                insertedCount |-> Len(file.rows),
                                preview       |->
                                  SubSeq(file.rows, 1,
                                         IF Len(file.rows) < TopN THEN Len(file.rows)
                                         ELSE TopN) ]),
                  \* { ...item, userId: userId }: the session's id wins
                  collection |-> collection \o
                    [i \in 1..Len(file.rows) |-> ("userId" :> session) @@ file.rows[i]],
                  files      |-> files \ {file.name},
                  open       |-> 0 ]
      ELSE IF \/ endsWith(toLowerCase(file.name), <<46, 120, 108, 115, 120>>)
              \/ endsWith(toLowerCase(file.name), <<46, 120, 108, 115>>)
      THEN failed(400, "Excel files are not currently supported. Please convert to CSV.")
      ELSE failed(400, "Unsupported file format. Please upload CSV files.")

\* GET of the upload route: the newest documents of the session's user
upload_GET(session, collection, up) ==
  IF session = "" THEN json(401, [error |-> "Unauthorized"])
  ELSE IF ~up THEN json(500, [error |-> "MONGODB_URI not set"])
  ELSE LET own == SelectSeq(collection, LAMBDA d : d.userId = session)
           newest == [i \in 1..Len(own) |-> own[Len(own) + 1 - i]]
       IN  json(200, [data |-> SubSeq(newest, 1, IF Len(newest) < PreviewLimit
                                                  THEN Len(newest) ELSE PreviewLimit)])

\* DELETE of the upload route: deleteMany({}), and no look at the session
upload_DELETE(collection, up) ==
  IF ~up
  THEN [response |-> json(500, [error |-> "MONGODB_URI not set"]), collection |-> collection]
  ELSE [ response   |-> json(200, [deletedCount |-> Len(collection)]),
         collection |-> <<>> ]

\* --------------------------------------------------------------- middleware
\* NextResponse.next() and NextResponse.redirect(url)
PassThrough == [next |-> TRUE]
Redirect(pathname, redirectedFrom) ==
  [redirect |-> [pathname |-> pathname, redirectedFrom |-> redirectedFrom]]

\* String.prototype.startsWith
startsWith(text, prefix) ==
  Len(text) >= Len(prefix) /\ SubSeq(text, 1, Len(prefix)) = prefix

\* config.matcher: "/", "/dashboard/:path*" and "/signup"
matcher(pathname) ==
  \/ pathname \in {<<47>>, <<47, 100, 97, 115, 104, 98, 111, 97, 114, 100>>, <<47, 115, 105, 103, 110, 117, 112>>}
  \/ startsWith(pathname, <<47, 100, 97, 115, 104, 98, 111, 97, 114, 100>> \o <<Slash>>)

\* a middleware that sends / and /signup to /dashboard whatever the session
middleware_loop(req) ==
  IF startsWith(req.pathname, <<47, 100, 97, 115, 104, 98, 111, 97, 114, 100>>) /\ req.session = ""
  THEN Redirect(<<47>>, req.pathname)
  ELSE IF req.pathname = <<47>> \/ req.pathname = <<47, 115, 105, 103, 110, 117, 112>>
  THEN Redirect(<<47, 100, 97, 115, 104, 98, 111, 97, 114, 100>>, req.redirectedFrom)
  ELSE PassThrough

\* middleware(req): req.session is "" without a session; the redirect target
\* is a clone of the request URL, so it keeps the redirectedFrom of the
\* request unless it is set anew
middleware(req) ==
  IF startsWith(req.pathname, <<47, 100, 97, 115, 104, 98, 111, 97, 114, 100>>) /\ req.session = ""
  THEN Redirect(<<47>>, req.pathname)
  ELSE IF req.session # "" /\ (req.pathname = <<47>> \/ req.pathname = <<47, 115, 105, 103, 110, 117, 112>>)
  THEN Redirect(<<47, 100, 97, 115, 104, 98, 111, 97, 114, 100>>, req.redirectedFrom)
  ELSE PassThrough

\* --------------------------------------------------------------- anomalies
\* the z-score thresholds 2.5 (units sold) and 2 (price), in tenths
SalesThreshold == 25
PriceThreshold == 20

\* the concatenation of the sequences of ss (push in a forEach)
RECURSIVE Flatten(_)
Flatten(ss) == IF ss = <<>> THEN <<>> ELSE Head(ss) \o Flatten(Tail(ss))

\* a z-score test that also reports a value at the threshold
zScoreExceeds_inclusive(value, values, threshold) ==
  LET mean == Rat(SumSeq(values), Len(values))
      deviation == RatSub(Num(value), mean)
  IN  RatLeq(RatMul(Num(threshold * threshold), sampleVariance(values)),
             RatMul(Num(100), RatMul(deviation, deviation)))

\* Math.abs((value - mean) / std) > threshold, mean = _.mean(values) and
\* std = math.std(values), the sample standard deviation; threshold in
\* tenths. With std = 0 the quotient is 0 / 0 = NaN when value = mean (and
\* would be Infinity otherwise), and NaN > threshold is false. Compared in
\* squares: 100 * (value - mean)^2 > threshold^2 * variance.
zScoreExceeds(value, values, threshold) ==
  LET mean == Rat(SumSeq(values), Len(values))
      variance == sampleVariance(values)
      deviation == RatSub(Num(value), mean)
  IN  IF variance.num = 0 THEN deviation.num # 0
      ELSE ~RatLeq(RatMul(Num(100), RatMul(deviation, deviation)),
                   RatMul(Num(threshold * threshold), variance))

\* 'unusually high' / 'unusually low'
anomalyType(value, values) ==
  IF value * Len(values) > SumSeq(values) THEN "unusually high" ELSE "unusually low"

\* AdvancedAnalytics.detectSalesAnomalies (the reported z_score, a square
\* root, is not part of this model)
detectSalesAnomalies(salesData) ==
  LET products == KeysInOrder(Pluck(salesData, "product"))
  IN  Flatten([p \in 1..Len(products) |->
        LET items == GroupOf(salesData, "product", products[p])
            unitsSold == Pluck(items, "units_sold")
            found == SelectSeq(items, LAMBDA item :
                       zScoreExceeds(item.units_sold, unitsSold, SalesThreshold))
        IN  [i \in 1..Len(found) |->
              [ date       |-> found[i].date,
                product    |-> found[i].product,
                units_sold |-> found[i].units_sold,
                type       |-> anomalyType(found[i].units_sold, unitsSold) ]]])

\* AdvancedAnalytics.detectPriceAnomalies
detectPriceAnomalies(salesData) ==
  LET products == KeysInOrder(Pluck(salesData, "product"))
  IN  Flatten([p \in 1..Len(products) |->
        LET items == GroupOf(salesData, "product", products[p])
            prices == Pluck(items, "price")
            found == SelectSeq(items, LAMBDA item :
                       zScoreExceeds(item.price, prices, PriceThreshold))
        IN  [i \in 1..Len(found) |->
              [ date    |-> found[i].date,
                product |-> found[i].product,
                price   |-> found[i].price,
                type    |-> anomalyType(found[i].price, prices) ]]])

\* AdvancedAnalytics.detectAnomalies
detectAnomalies(data) ==
  LET salesData == [i \in 1..Len(data) |->
                     [ date       |-> data[i].Date,
                       product    |-> data[i].Product,
                       units_sold |-> data[i].Units_Sold,
                       revenue    |-> data[i].Revenue_BWP,
                       price      |-> data[i].Price_per_Unit_BWP ]]
  IN  [ sales_anomalies |-> detectSalesAnomalies(salesData),
        price_anomalies |-> detectPriceAnomalies(salesData) ]

\* ----------------------------------------------------------- market basket
\* minSupport 0.05 and minConfidence 0.3, in hundredths
MinSupport == 5
MinConfidence == 30

\* AdvancedAnalytics.countItems: one count per item, in the order of first
\* occurrence; every occurrence of an item in a transaction is counted
countItems(transactions) ==
  LET occurrences == Flatten(transactions)
      items == KeysInOrder(occurrences)
  IN  [k \in 1..Len(items) |->
        [ item  |-> items[k],
          count |-> Len(SelectSeq(occurrences, LAMBDA x : x = items[k])) ]]

\* AdvancedAnalytics.findFrequentItems: count / totalTransactions >= minSupport
findFrequentItems(itemCounts, totalTransactions, minSupport) ==
  Pluck(SelectSeq(itemCounts, LAMBDA c :
          RatLeq(Rat(minSupport, 100), Rat(c.count, totalTransactions))),
        "item")

\* AdvancedAnalytics.calculateSupport
calculateSupport(itemset, transactions) ==
  Rat(Len(SelectSeq(transactions, LAMBDA transaction :
            \A k \in DOMAIN itemset : \E m \in DOMAIN transaction :
               transaction[m] = itemset[k])),
      Len(transactions))

\* AdvancedAnalytics.generateFrequentItemsets
generateFrequentItemsets(transactions, frequentItems, minSupport) ==
  LET n == Len(frequentItems)
      singleItemsets == [i \in 1..n |->
        [ itemset |-> <<frequentItems[i]>>,
          support |-> calculateSupport(<<frequentItems[i]>>, transactions) ]]
      pairAt(i, j) ==
        LET pair == <<frequentItems[i], frequentItems[j]>>
            support == calculateSupport(pair, transactions)
        IN  IF j > i /\ RatLeq(Rat(minSupport, 100), support)
            THEN <<[itemset |-> pair, support |-> support]>> ELSE <<>>
  IN  singleItemsets
        \o Flatten([i \in 1..n |-> Flatten([j \in 1..n |-> pairAt(i, j)])])

\* rule generation without the confidence test
generateAssociationRules_unfiltered(frequentItemsets, transactions, minConfidence) ==
  LET pairItemsets == SelectSeq(frequentItemsets, LAMBDA s : Len(s.itemset) > 1)
      ruleAt(p, i) ==
        LET antecedent == <<pairItemsets[p].itemset[i]>>
            consequent == <<pairItemsets[p].itemset[3 - i]>>
            confidence == RatDiv(pairItemsets[p].support,
                                 calculateSupport(antecedent, transactions))
        IN  << [ antecedent |-> antecedent,
                 consequent |-> consequent,
                 confidence |-> confidence,
                 lift       |-> RatDiv(confidence,
                                       calculateSupport(consequent, transactions)) ] >>
  IN  Flatten([p \in 1..Len(pairItemsets) |-> ruleAt(p, 1) \o ruleAt(p, 2)])

\* AdvancedAnalytics.generateAssociationRules
generateAssociationRules(frequentItemsets, transactions, minConfidence) ==
  LET pairItemsets == SelectSeq(frequentItemsets, LAMBDA s : Len(s.itemset) > 1)
      ruleAt(p, i) ==
        LET antecedent == <<pairItemsets[p].itemset[i]>>
            consequent == <<pairItemsets[p].itemset[3 - i]>>
            confidence == RatDiv(pairItemsets[p].support,
                                 calculateSupport(antecedent, transactions))
        IN  IF RatLeq(Rat(minConfidence, 100), confidence)
            THEN << [ antecedent |-> antecedent,
                      consequent |-> consequent,
                      confidence |-> confidence,
                      lift       |-> RatDiv(confidence,
                                            calculateSupport(consequent, transactions)) ] >>
            ELSE <<>>
  IN  Flatten([p \in 1..Len(pairItemsets) |-> ruleAt(p, 1) \o ruleAt(p, 2)])

\* AdvancedAnalytics.analyzeMarketBasket. The grouping key is the template
\* string Date-Store-Customer_Demographic; the names of the model hold no
\* '-', so the string and the triple determine each other.
analyzeMarketBasket(data) ==
  LET keyOf(item) == <<item.Date, item.Store, item.Customer_Demographic>>
      keys == KeysInOrder([i \in 1..Len(data) |-> keyOf(data[i])])
      transactions == [t \in 1..Len(keys) |->
        Pluck(SelectSeq(data, LAMBDA item : keyOf(item) = keys[t]), "Product")]
      itemCounts == countItems(transactions)
      frequentItems == findFrequentItems(itemCounts, Len(transactions), MinSupport)
      frequentItemsets == generateFrequentItemsets(transactions, frequentItems, MinSupport)
      associationRules == generateAssociationRules(frequentItemsets, transactions,
                                                   MinConfidence)
  IN  [ frequent_itemsets |->
          [k \in 1..Len(frequentItemsets) |->
            [ items   |-> frequentItemsets[k].itemset,
              support |-> frequentItemsets[k].support ]],
        association_rules |-> associationRules ]

\* ------------------------------------------------------------------ inputs
\* input dates span a year end: the later date has the smaller string
Dates == {Str(15, 12, 2023), Str(1, 1, 2024)}
Products == {"p1", "p2"}
Demographics == {"d1", "d2"}

\* BusinessData rows
Rows(dates, products, units, revenues, demographics) ==
  [ Date : dates, Product : products, Units_Sold : units, Revenue_BWP : revenues,
    Customer_Demographic : demographics, Stock_Level : {10}, Lead_Time_Days : {4},
    Price_per_Unit_BWP : {10}, Competition_Price_BWP : {12} ]

\* lists of at most n elements of S
ListsOf(S, n) == UNION {[1..k -> S] : k \in 0..n}

\* the days on which a call can run: two consecutive days after the data
Clock == {toMillis(fromFormat(d)) : d \in {Str(2, 3, 2024), Str(3, 3, 2024)}}

\* values of Math.random() in hundredths that the model draws
RandomPercent == {10, 90}

NoResult == [none |-> TRUE]
IsOk(r) == r # NoResult /\ "error" \notin DOMAIN r

\* ------------------------------------------------------------------- state
VARIABLES
  data,        \* the record list handed to the entry point (the array object)
  today,       \* the calendar day DateTime.now() falls on
  entry,       \* the entry point called on data so far, "" before the first call
  result,      \* what the last call returned
  prevResult,  \* what the call before it returned
  series,      \* a daily series handed to a forecasting helper
  window,      \* its moving-average window
  alpha,       \* its smoothing factor
  horizon,     \* its forecast horizon
  computed,    \* what the helper returned
  rfm,         \* recency, frequency and monetary of one segment
  scored,      \* its scores and tier
  raw,         \* the documents of the sales_data collection
  salesResult, \* what processSalesData returned for them
  request,     \* the endpoint a client is about to call, and its session
  stored,      \* the data type whose collection holds documents
  docs,        \* the documents of that collection
  dbUp,        \* whether the connection to MongoDB succeeds
  saved,       \* the results kept in ml_results for the user
  response,    \* the response of the endpoint
  clients,     \* the number of MongoClient connections opened and not closed
  tmpFiles,    \* the names of the files in os.tmpdir()
  page         \* the state of the UploadDataPage component and its requests

pipelineVars == <<data, today, entry, result, prevResult>>
forecastVars == <<series, window, alpha, horizon, computed>>
rfmVars == <<rfm, scored>>
salesVars == <<raw, salesResult>>
apiVars == <<request, stored, docs, dbUp, saved, response, clients, tmpFiles, page>>

vars == <<pipelineVars, forecastVars, rfmVars, salesVars, apiVars>>

\* what the actions of one part leave alone
notPipeline == <<forecastVars, rfmVars, salesVars, apiVars>>
notForecast == <<pipelineVars, rfmVars, salesVars, apiVars>>
notRfm == <<pipelineVars, forecastVars, salesVars, apiVars>>
notSales == <<pipelineVars, forecastVars, rfmVars, apiVars>>
notApi == <<pipelineVars, forecastVars, rfmVars, salesVars>>

PipelineIdle ==
  /\ data = <<>>
  /\ today = 0
  /\ entry = ""
  /\ result = NoResult
  /\ prevResult = NoResult

ForecastIdle ==
  /\ series = <<>>
  /\ window = 0
  /\ alpha = NaN
  /\ horizon = 0
  /\ computed = NoResult

RfmIdle ==
  /\ rfm = NoResult
  /\ scored = NoResult

SalesIdle ==
  /\ raw = <<>>
  /\ salesResult = NoResult

ApiIdle ==
  /\ request = NoResult
  /\ stored = ""
  /\ docs = <<>>
  /\ dbUp = TRUE
  /\ saved = NoResult
  /\ response = NoResult
  /\ clients = 0
  /\ tmpFiles = {}
  /\ page = NoResult

\* ---------------------------------------------------------------- pipeline
\* a call of AdvancedAnalytics.processData(data): the array is sorted in place
ProcessData ==
  /\ entry \in {"", "processData"}
  /\ prevResult = NoResult
  /\ result' = processData(data, today)
  /\ prevResult' = result
  /\ data' = sortByDate(data)
  /\ entry' = "processData"
  /\ UNCHANGED <<today, notPipeline>>

\* a call of RetailAnalytics.analyzeData(data)
AnalyzeData ==
  /\ entry \in {"", "analyzeData"}
  /\ prevResult = NoResult
  /\ \E draws \in [1..(3 * Len(KeysInOrder(Pluck(data, "Customer_Demographic")))) -> RandomPercent] :
        result' = analyzeData(data, today, draws)
  /\ prevResult' = result
  /\ entry' = "analyzeData"
  /\ UNCHANGED <<data, today, notPipeline>>

\* midnight passes
Tick ==
  /\ today + 1 \in Clock
  /\ today' = today + 1
  /\ UNCHANGED <<data, entry, result, prevResult, notPipeline>>

FirstDay == CHOOSE d \in Clock : \A e \in Clock : d <= e

\* One call of the pipeline on one uploaded record list, on the first day.
Init ==
  /\ data \in ListsOf(Rows(Dates, Products, {0, 4}, {30, 70}, Demographics), MaxLen)
  /\ today = FirstDay
  /\ entry = ""
  /\ result = NoResult
  /\ prevResult = NoResult
  /\ ForecastIdle
  /\ RfmIdle
  /\ SalesIdle
  /\ ApiIdle

Next == entry = "" /\ ProcessData

Spec == Init /\ [][Next]_vars

\* Repeated calls of one entry point on the same record list, over midnight.
InitRepeat ==
  /\ data \in ListsOf(Rows(Dates, {"p1"}, {4}, {30, 70}, {"d1"}), MaxLen)
  /\ today \in Clock
  /\ entry = ""
  /\ result = NoResult
  /\ prevResult = NoResult
  /\ ForecastIdle
  /\ RfmIdle
  /\ SalesIdle
  /\ ApiIdle

NextRepeat == ProcessData \/ AnalyzeData \/ Tick

SpecRepeat == InitRepeat /\ [][NextRepeat]_vars

\* --------------------------------------------------------------- inventory
\* rows of one day whose units and lead times vary
InventoryRows ==
  [ Date : {Str(1, 1, 2024)}, Product : Products, Units_Sold : {0, 4, 6},
    Revenue_BWP : {30}, Customer_Demographic : {"d1"}, Stock_Level : {0, 10},
    Lead_Time_Days : {0, 1, 4}, Price_per_Unit_BWP : {10},
    Competition_Price_BWP : {12} ]

\* a call of analyzeInventory(data)
AnalyzeInventory ==
  /\ entry = ""
  /\ result' = [inventoryInsights |-> analyzeInventory(data)]
  /\ entry' = "analyzeInventory"
  /\ UNCHANGED <<data, today, prevResult, notPipeline>>

\* a call of optimizeInventory(data)
OptimizeInventory ==
  /\ entry = ""
  /\ result' = [inventory_metrics |-> optimizeInventory(data)]
  /\ entry' = "optimizeInventory"
  /\ UNCHANGED <<data, today, prevResult, notPipeline>>

\* The two inventory analyses, each on every record list.
InitInventory ==
  /\ data \in ListsOf(InventoryRows, MaxLen)
  /\ today = FirstDay
  /\ entry = ""
  /\ result = NoResult
  /\ prevResult = NoResult
  /\ ForecastIdle
  /\ RfmIdle
  /\ SalesIdle
  /\ ApiIdle

NextInventory == AnalyzeInventory \/ OptimizeInventory

SpecInventory == InitInventory /\ [][NextInventory]_vars

\* ------------------------------------------------------ forecasting helpers
\* longest series, largest window and longest horizon handed to the helpers
MaxSeries == 3
MaxWindow == 3
MaxHorizon == 3

SeriesValues == {-3, 0, 2, 5}
\* smoothing factors in (0, 1]
Alphas == {Rat(1, 10), Alpha, Rat(1, 2), Num(1)}

Computed(fn, value) == [fn |-> fn, value |-> value]

CalculateMovingAverage ==
  /\ computed = NoResult
  /\ computed' = Computed("calculateMovingAverage", calculateMovingAverage(series, window))
  /\ UNCHANGED <<series, window, alpha, horizon, notForecast>>

ExponentialSmoothing ==
  /\ computed = NoResult
  /\ computed' = Computed("exponentialSmoothing", exponentialSmoothing(series, alpha, horizon))
  /\ UNCHANGED <<series, window, alpha, horizon, notForecast>>

RetailExponentialSmoothing ==
  /\ computed = NoResult
  /\ computed' = Computed("Retail_exponentialSmoothing",
                          Retail_exponentialSmoothing(series, alpha, horizon))
  /\ UNCHANGED <<series, window, alpha, horizon, notForecast>>

InitForecast ==
  /\ series \in ListsOf(SeriesValues, MaxSeries)
  /\ window \in 1..MaxWindow
  /\ alpha \in Alphas
  /\ horizon \in 0..MaxHorizon
  /\ computed = NoResult
  /\ PipelineIdle
  /\ RfmIdle
  /\ SalesIdle
  /\ ApiIdle

NextForecast == CalculateMovingAverage \/ ExponentialSmoothing \/ RetailExponentialSmoothing

SpecForecast == InitForecast /\ [][NextForecast]_vars

\* ------------------------------------------------------------- RFM scoring
RecencyValues == {0, 1, 199, 200, 500, 999, 1000, 1500}
FrequencyValues == {0, 1, 200, 201, 1000}
MonetaryValues == {0, 30, 600, 1000, 2000}

ScoreSegment ==
  /\ scored = NoResult
  /\ scored' = scoreSegment(rfm.recency, rfm.frequency, rfm.monetary)
  /\ UNCHANGED <<rfm, notRfm>>

InitRFM ==
  /\ rfm \in [recency : RecencyValues, frequency : FrequencyValues, monetary : MonetaryValues]
  /\ scored = NoResult
  /\ PipelineIdle
  /\ ForecastIdle
  /\ SalesIdle
  /\ ApiIdle

NextRFM == ScoreSegment

SpecRFM == InitRFM /\ [][NextRFM]_vars
\* ------------------------------------------------------- sales processing
\* longest sales_data collection
MaxSales == 4

\* raw documents: dates that parse and one that does not; amounts that are
\* numbers, numeric or non-numeric strings, or missing
SalesDocs ==
  [ date     : {JsString(Iso(15, 1, 2024)), JsString(<<110, 47, 97>>)},
    amount   : {JsNumber(10), JsString(<<97, 98, 99>>), JsUndefined},
    quantity : {JsNumber(2)},
    product  : {"p1"} ]
  \cup
  [ date     : {JsString(Iso(1, 1, 2024))},
    amount   : {JsString(<<50, 48>>)},
    quantity : {JsNumber(1), JsString(<<120>>)},
    product  : {"p2"} ]

\* the streams of Math.random() values a call can draw from: the model
\* samples the streams that repeat one value
DrawStreams(n) == {[j \in 1..n |-> r] : r \in RandomPercent}

\* processSalesData(data) as the process route calls it
ProcessSalesData ==
  /\ salesResult = NoResult
  /\ \E draws \in DrawStreams(2 * SalesHorizon) :
        salesResult' = processSalesData(raw, draws)
  /\ UNCHANGED <<raw, notSales>>

InitSales ==
  /\ raw \in ListsOf(SalesDocs, MaxSales)
  /\ salesResult = NoResult
  /\ PipelineIdle
  /\ ForecastIdle
  /\ RfmIdle
  /\ ApiIdle

NextSales == ProcessSalesData

SpecSales == InitSales /\ [][NextSales]_vars

\* ---------------------------------------------------------------- endpoints
\* most documents in a collection
MaxDocs == 3

\* the data types a client asks for; "combined" is what the upload page sends
DataTypes == {"sales", "customer", "inventory", "combined"}

\* documents of the three collections
CollectionDocs(dataType) ==
  IF dataType = "sales"
  THEN [ date     : {JsString(Iso(15, 1, 2024)), JsString(<<110, 47, 97>>)},
         amount   : {JsNumber(10), JsUndefined},
         quantity : {JsNumber(2)},
         product  : {"p1"} ]
  ELSE IF dataType = "inventory"
  THEN [ id           : {"i1"},
         quantity     : {JsNumber(50), JsString(<<120>>)},
         reorderLevel : {JsUndefined},
         salesRate    : {JsNumber(2), JsUndefined} ]
  ELSE [ id        : {"c1"},
         purchases : {JsNumber(2), JsUndefined},
         spent     : {JsNumber(120), JsString(<<97, 98, 99>>)} ]

\* a POST to the process route with a data type in the body
Post ==
  /\ request.endpoint = "process"
  /\ response = NoResult
  /\ \E dataType \in DataTypes, draws \in DrawStreams(2 * SalesHorizon) :
        /\ response' = POST(dataType, IF dataType = stored THEN docs ELSE <<>>,
                            dbUp, FALSE, draws)
        /\ request' = [endpoint |-> request.endpoint, session |-> request.session,
                       method |-> "POST", dataType |-> dataType]
  /\ UNCHANGED <<stored, docs, dbUp, saved, clients, tmpFiles, page, notApi>>

\* a GET to the process route, with or without the type parameter
Get ==
  /\ request.endpoint = "process"
  /\ response = NoResult
  /\ \E type \in DataTypes \cup {""}, draws \in DrawStreams(2 * SalesHorizon) :
        /\ response' = GET(type, IF type = stored THEN docs ELSE <<>>, dbUp, draws)
        /\ request' = [endpoint |-> request.endpoint, session |-> request.session,
                       method |-> "GET", dataType |-> type]
  /\ UNCHANGED <<stored, docs, dbUp, saved, clients, tmpFiles, page, notApi>>

\* a POST to the process-data route; the handler never reads the body, so the
\* data type the client sent is recorded with the request and nothing else
PostProcessData ==
  /\ request.endpoint = "process-data"
  /\ response = NoResult
  /\ \E out \in {processDataRoute(request.session, docs, dbUp, today, saved)} :
        /\ response' = out.response
        /\ saved' = out.saved
        /\ clients' = clients + out.open
  /\ \E dataType \in DataTypes :
        request' = [endpoint |-> request.endpoint, session |-> request.session,
                    method |-> "POST", dataType |-> dataType]
  /\ UNCHANGED <<stored, docs, dbUp, tmpFiles, page, notApi>>

\* One request to one endpoint, whatever the collections hold.
InitApi ==
  /\ \/ /\ request = [endpoint |-> "process", session |-> ""]
        /\ stored \in DataTypes
        /\ docs \in ListsOf(CollectionDocs(stored), MaxDocs)
     \/ /\ request \in [endpoint : {"process-data"}, session : {"", "u1"}]
        /\ stored = "sales"
        /\ docs \in ListsOf(Rows(Dates \cup {MissingDate}, {"p1"}, {4}, {30, 70}, {"d1"}),
                             MaxLen)
  /\ dbUp \in BOOLEAN
  /\ saved = NoResult
  /\ response = NoResult
  /\ clients = 0
  /\ tmpFiles = {}
  /\ page = NoResult
  /\ data = <<>>
  /\ today = FirstDay
  /\ entry = ""
  /\ result = NoResult
  /\ prevResult = NoResult
  /\ ForecastIdle
  /\ RfmIdle
  /\ SalesIdle

NextApi == Post \/ Get \/ PostProcessData

SpecApi == InitApi /\ [][NextApi]_vars

\* ----------------------------------------------------------------- insights
\* most records of one product but for the outliers, most transactions that
\* hold the second product only, and longest list of freely priced records
MaxGroup == 9
MaxBasket == 20
MaxPriced == 3

\* n copies of x
Copies(x, n) == [i \in 1..n |-> x]

\* a BusinessData record with a Store
InsightRow(date, store, product, units, price) ==
  [ Date |-> date, Store |-> store, Product |-> product, Units_Sold |-> units,
    Revenue_BWP |-> units * price, Customer_Demographic |-> "d1",
    Stock_Level |-> 10, Lead_Time_Days |-> 4, Price_per_Unit_BWP |-> price,
    Competition_Price_BWP |-> price + 2 ]

\* The record lists handed to the insight functions: short lists of freely
\* priced records; one product sold n times at the usual units and price, h
\* times in large units and q times at a high price, with or without a
\* record of a second product; and baskets of a transactions with both
\* products, b with the first product twice, c with the second product only
\* and d with the first only, every transaction under its own key.
InsightInputs ==
  LET day == Str(1, 1, 2024)
      priced == ListsOf({InsightRow(day, "s1", product, 1, price) :
                           product \in Products, price \in {10, 25}}, MaxPriced)
      groups == { Copies(InsightRow(day, "s1", "p1", 1, 10), n)
                    \o Copies(InsightRow(day, "s1", "p1", 9, 10), h)
                    \o Copies(InsightRow(day, "s1", "p1", 1, 50), q)
                    \o Copies(InsightRow(day, "s1", "p2", 9, 50), o) :
                  n \in 0..MaxGroup, h \in 0..2, q \in 0..1, o \in 0..1 }
      basket(shapes) ==
        Flatten([t \in 1..Len(shapes) |->
          [k \in 1..Len(shapes[t]) |->
            InsightRow(Str(1 + (t \div 2), 1, 2024),
                       IF t % 2 = 0 THEN "s1" ELSE "s2", shapes[t][k], 1, 10)]])
      baskets == { basket(Copies(<<"p1", "p2">>, a) \o Copies(<<"p1", "p1">>, b)
                            \o Copies(<<"p2">>, c) \o Copies(<<"p1">>, d)) :
                   a \in 0..2, b \in 0..1, c \in 0..MaxBasket, d \in 0..3 }
  IN  priced \cup groups \cup baskets

\* a call of detectAnomalies(data)
DetectAnomalies ==
  /\ entry = ""
  /\ result' = detectAnomalies(data)
  /\ entry' = "detectAnomalies"
  /\ UNCHANGED <<data, today, prevResult, notPipeline>>

\* a call of RetailAnalytics.groupByProduct(data)
GroupByProduct ==
  /\ entry = ""
  /\ result' = [productStats |-> groupByProduct(data, <<>>)]
  /\ entry' = "groupByProduct"
  /\ UNCHANGED <<data, today, prevResult, notPipeline>>

\* a call of analyzeMarketBasket(data)
AnalyzeMarketBasket ==
  /\ entry = ""
  /\ result' = analyzeMarketBasket(data)
  /\ entry' = "analyzeMarketBasket"
  /\ UNCHANGED <<data, today, prevResult, notPipeline>>

\* The insight functions, each on every record list.
InitInsights ==
  /\ data \in InsightInputs
  /\ today = FirstDay
  /\ entry = ""
  /\ result = NoResult
  /\ prevResult = NoResult
  /\ ForecastIdle
  /\ RfmIdle
  /\ SalesIdle
  /\ ApiIdle

NextInsights == DetectAnomalies \/ GroupByProduct \/ AnalyzeMarketBasket

SpecInsights == InitInsights /\ [][NextInsights]_vars

\* ------------------------------------------------------------ upload calls
\* most documents in sales_data
MaxStored == 3

\* the users, and the session of a request ("" for none)
Users == {"u1", "u2"}

\* the files a form can hold: a.csv with one row that has a userId column of
\* its own, with no row, or malformed; A.CSV; b.xls; c.txt
UploadFiles ==
  [ name : {<<97, 46, 99, 115, 118>>},
    rows : {<<>>, <<[Product |-> "p1", userId |-> "u2"]>>},
    malformed : BOOLEAN ]
  \cup [ name : {<<65, 46, 67, 83, 86>>}, rows : {<<[Product |-> "p1"]>>},
         malformed : {FALSE} ]
  \cup [ name : {<<98, 46, 120, 108, 115>>, <<99, 46, 116, 120, 116>>},
         rows : {<<>>}, malformed : {FALSE} ]

\* a POST to the upload route
UploadPost ==
  \E session \in Users \cup {""}, file \in UploadFiles \cup {NoFile} :
    \E out \in {upload_POST(session, file, docs, tmpFiles, dbUp)} :
      /\ Len(out.collection) <= MaxStored
      /\ request' = [endpoint |-> "upload", session |-> session, method |-> "POST"]
      /\ response' = out.response
      /\ docs' = out.collection
      /\ tmpFiles' = out.files
      /\ clients' = clients + out.open
      /\ UNCHANGED <<stored, dbUp, saved, page, notApi>>

\* a GET to the upload route
UploadGet ==
  \E session \in Users \cup {""} :
    /\ request' = [endpoint |-> "upload", session |-> session, method |-> "GET"]
    /\ response' = upload_GET(session, docs, dbUp)
    /\ UNCHANGED <<stored, docs, dbUp, saved, clients, tmpFiles, page, notApi>>

\* a DELETE to the upload route
UploadDelete ==
  \E session \in Users \cup {""} :
    \E out \in {upload_DELETE(docs, dbUp)} :
      /\ request' = [endpoint |-> "upload", session |-> session, method |-> "DELETE"]
      /\ response' = out.response
      /\ docs' = out.collection
      /\ UNCHANGED <<stored, dbUp, saved, clients, tmpFiles, page, notApi>>

\* Any sequence of requests to the upload route, on an empty collection.
InitUpload ==
  /\ request = NoResult
  /\ stored = "sales"
  /\ docs = <<>>
  /\ dbUp \in BOOLEAN
  /\ saved = NoResult
  /\ response = NoResult
  /\ clients = 0
  /\ tmpFiles = {}
  /\ page = NoResult
  /\ PipelineIdle
  /\ ForecastIdle
  /\ RfmIdle
  /\ SalesIdle

NextUpload == UploadPost \/ UploadGet \/ UploadDelete

SpecUpload == InitUpload /\ [][NextUpload]_vars

\* ---------------------------------------------------------- page requests
\* the paths a browser asks for: /, /signup, /dashboard, /dashboard/upload,
\* /dashboards and /about
Pathnames ==
  { <<47>>, <<47, 115, 105, 103, 110, 117, 112>>, <<47, 100, 97, 115, 104, 98, 111, 97, 114, 100>>,
    <<47, 100, 97, 115, 104, 98, 111, 97, 114, 100, 47, 117, 112, 108, 111, 97, 100>>,
    <<47, 100, 97, 115, 104, 98, 111, 97, 114, 100, 115>>, <<47, 97, 98, 111, 117, 116>> }

\* the request reaches the middleware if the matcher holds, and passes
\* otherwise
Middleware ==
  /\ request.endpoint = "page"
  /\ response = NoResult
  /\ response' = IF matcher(request.pathname) THEN middleware(request) ELSE PassThrough
  /\ UNCHANGED <<request, stored, docs, dbUp, saved, clients, tmpFiles, page, notApi>>

\* the browser follows the redirect with the same session
FollowRedirect ==
  /\ request.endpoint = "page"
  /\ response # NoResult
  /\ "redirect" \in DOMAIN response
  /\ request' = [ request EXCEPT !.pathname = response.redirect.pathname,
                                 !.redirectedFrom = response.redirect.redirectedFrom,
                                 !.hops = @ + 1 ]
  /\ response' = NoResult
  /\ UNCHANGED <<stored, docs, dbUp, saved, clients, tmpFiles, page, notApi>>

\* One page request, with or without a session and a redirectedFrom
\* parameter (<<>> for none).
InitMiddleware ==
  /\ request \in [ endpoint : {"page"}, pathname : Pathnames,
                   redirectedFrom : Pathnames \cup {<<>>},
                   session : Users \cup {""}, hops : {0} ]
  /\ stored = ""
  /\ docs = <<>>
  /\ dbUp = TRUE
  /\ saved = NoResult
  /\ response = NoResult
  /\ clients = 0
  /\ tmpFiles = {}
  /\ page = NoResult
  /\ PipelineIdle
  /\ ForecastIdle
  /\ RfmIdle
  /\ SalesIdle

NextMiddleware == Middleware \/ FollowRedirect

SpecMiddleware == InitMiddleware /\ [][NextMiddleware]_vars

\* -------------------------------------------------------------- upload page
\* most requests of one kind the page has in flight
MaxInFlight == 2

\* the files a user picks in the file input: a.csv with one row or with no
\* row, and c.txt
PageFiles ==
  { f \in UploadFiles : ~f.malformed /\ f.name \in {<<97, 46, 99, 115, 118>>, <<99, 46, 116, 120, 116>>} }

\* the Process Data button is rendered with the preview table and disabled
\* unless uploadStatus is "success"
ProcessDataEnabled ==
  Len(page.dataPreview) > 0 /\ page.uploadStatus = "success"

\* handleFileUpload up to its await: the file input changed to file
HandleFileUpload ==
  /\ page # NoResult
  /\ ~page.left
  /\ \E file \in PageFiles \cup {NoFile} :
       LET toLowerCase(name) ==
             [i \in 1..Len(name) |-> IF name[i] \in 65..90 THEN name[i] + 32 ELSE name[i]]
           endsWith(name, suffix) ==
             /\ Len(name) >= Len(suffix)
             /\ SubSeq(name, Len(name) - Len(suffix) + 1, Len(name)) = suffix
       IN  IF file = NoFile
           THEN page' = page
           ELSE IF ~endsWith(toLowerCase(file.name), <<46, 99, 115, 118>>)
           THEN page' = [page EXCEPT !.uploadStatus = "error"]
           ELSE /\ Len(page.uploads) < MaxInFlight
                /\ page' = [ page EXCEPT !.uploadedFile = file,
                                         !.uploadStatus = "uploading",
                                         !.uploadProgress = 0,
                                         !.uploads = Append(@, file) ]
  /\ UNCHANGED <<request, stored, docs, dbUp, saved, response, clients, tmpFiles, notApi>>

\* onUploadProgress of an upload in flight, with loaded of total 2 sent
OnUploadProgress ==
  /\ page # NoResult
  /\ ~page.left
  /\ Len(page.uploads) > 0
  /\ \E loaded \in 1..2 :
       page' = [page EXCEPT !.uploadProgress = (loaded * 100) \div 2]
  /\ UNCHANGED <<request, stored, docs, dbUp, saved, response, clients, tmpFiles, notApi>>

\* handleFileUpload after its await: one of the uploads in flight is
\* answered by the POST handler; axios rejects on a status other than 2xx
UploadResolves ==
  /\ page # NoResult
  /\ ~page.left
  /\ \E i \in 1..Len(page.uploads) :
       \E out \in {upload_POST(page.session, page.uploads[i], docs, tmpFiles, dbUp)} :
         LET rest == SubSeq(page.uploads, 1, i - 1)
                       \o SubSeq(page.uploads, i + 1, Len(page.uploads))
         IN  /\ Len(out.collection) <= MaxStored
             /\ out.response.status = 200 => page.previews < MaxInFlight
             /\ response' = out.response
             /\ docs' = out.collection
             /\ tmpFiles' = out.files
             /\ clients' = clients + out.open
             /\ page' = IF out.response.status = 200
                        THEN [ page EXCEPT !.uploads = rest,
                                           !.uploadStatus = "success",
                                           !.previews = @ + 1 ]
                        ELSE [ page EXCEPT !.uploads = rest,
                                           !.uploadStatus = "error" ]
  /\ UNCHANGED <<request, stored, dbUp, saved, notApi>>

\* fetchDataPreview after its await: one of the GET requests in flight is
\* answered
FetchDataPreviewResolves ==
  /\ page # NoResult
  /\ ~page.left
  /\ page.previews > 0
  /\ \E res \in {upload_GET(page.session, docs, dbUp)} :
       /\ response' = res
       /\ page' = IF res.status = 200 /\ Len(res.body.data) > 0
                  THEN [ page EXCEPT !.previews = @ - 1,
                                     !.dataPreview = res.body.data,
                                     !.uploadStatus = "success" ]
                  ELSE [ page EXCEPT !.previews = @ - 1,
                                     !.dataPreview = <<>> ]
  /\ UNCHANGED <<request, stored, docs, dbUp, saved, clients, tmpFiles, notApi>>

\* handleDeleteData up to its await: the Delete Data button, rendered with
\* the preview table
HandleDeleteData ==
  /\ page # NoResult
  /\ ~page.left
  /\ Len(page.dataPreview) > 0
  /\ page.deletes < MaxInFlight
  /\ page' = [page EXCEPT !.deletes = @ + 1]
  /\ UNCHANGED <<request, stored, docs, dbUp, saved, response, clients, tmpFiles, notApi>>

\* handleDeleteData after its await
DeleteResolves ==
  /\ page # NoResult
  /\ ~page.left
  /\ page.deletes > 0
  /\ \E out \in {upload_DELETE(docs, dbUp)} :
       /\ response' = out.response
       /\ docs' = out.collection
       /\ page' = IF out.response.status = 200
                  THEN [ page EXCEPT !.deletes = @ - 1,
                                     !.dataPreview = <<>>,
                                     !.uploadStatus = "idle",
                                     !.uploadedFile = NoFile ]
                  ELSE [page EXCEPT !.deletes = @ - 1]
  /\ UNCHANGED <<request, stored, dbUp, saved, clients, tmpFiles, notApi>>

\* handleProcessData: the Process Data button; the answer of the
\* process-data route says processed or not, and router.push leaves the page
HandleProcessData ==
  /\ page # NoResult
  /\ ~page.left
  /\ ProcessDataEnabled
  /\ \E processed \in BOOLEAN :
       page' = [page EXCEPT !.left = processed]
  /\ UNCHANGED <<request, stored, docs, dbUp, saved, response, clients, tmpFiles, notApi>>

\* The page as user u1 opens it: the effect of the first render has sent
\* fetchDataPreview; sales_data is empty or holds a document of an earlier
\* upload.
InitPage ==
  /\ request = NoResult
  /\ stored = "sales"
  /\ docs \in {<<>>, <<[Product |-> "p0", userId |-> "u1"]>>}
  /\ dbUp \in BOOLEAN
  /\ saved = NoResult
  /\ response = NoResult
  /\ clients = 0
  /\ tmpFiles = {}
  /\ page = [ session |-> "u1", uploadProgress |-> 0, uploadStatus |-> "idle",
              uploadedFile |-> NoFile, dataPreview |-> <<>>, uploads |-> <<>>,
              previews |-> 1, deletes |-> 0, left |-> FALSE ]
  /\ PipelineIdle
  /\ ForecastIdle
  /\ RfmIdle
  /\ SalesIdle

NextPage ==
  \/ HandleFileUpload
  \/ OnUploadProgress
  \/ UploadResolves
  \/ FetchDataPreviewResolves
  \/ HandleDeleteData
  \/ DeleteResolves
  \/ HandleProcessData

SpecPage == InitPage /\ [][NextPage]_vars

\* ================================================================== claims
\* C1: two calls of an analytics entry point on the same record list return
\* identical output, whatever the clock and the random source do.
C1_Determinism == prevResult # NoResult => result = prevResult

\* C2: the units of all daily_sales entries add up to the units of all input
\* records, and the per-product revenues and units (total_revenue and
\* total_units are their sums over salesByProduct) add up to the revenue and
\* units of all input records; every record is counted in one day.
C2_Conservation ==
  IsOk(result) =>
    /\ SumSeq(Pluck(result.daily_sales, "units_sold")) = SumSeq(Pluck(data, "Units_Sold"))
    /\ result.overall_metrics.total_revenue = SumSeq(Pluck(data, "Revenue_BWP"))
    /\ result.overall_metrics.total_units = SumSeq(Pluck(data, "Units_Sold"))
    /\ SumSeq(Pluck(result.daily_sales, "transactions")) = Len(data)

\* two records of one day and one product, merged by both groupings
C2_Witness ==
  /\ IsOk(result)
  /\ Len(data) = 2
  /\ data[1].Date = data[2].Date
  /\ data[1].Product = data[2].Product
  /\ data[1].Units_Sold = 4 /\ data[2].Units_Sold = 4
  /\ data[1].Revenue_BWP # data[2].Revenue_BWP

\* C4: every product gets exactly one category of A, B, C, and the product
\* with the highest revenue is in category A.
C4_ABCPartition ==
  IsOk(result) =>
    LET insights == result.inventoryInsights
    IN  /\ \A i \in DOMAIN data :
              Cardinality({p \in DOMAIN insights : insights[p].product = data[i].Product}) = 1
        /\ \A p \in DOMAIN insights : insights[p].category \in {"A", "B", "C"}
        /\ \E p \in DOMAIN insights :
              /\ \A q \in DOMAIN insights : insights[q].revenue <= insights[p].revenue
              /\ insights[p].category = "A"

\* the sum of the w values at indices i-w+1..i (1-based)
RECURSIVE TrailingSum(_, _, _)
TrailingSum(s, i, w) == IF w = 0 THEN 0 ELSE s[i] + TrailingSum(s, i - 1, w - 1)

\* C5: calculateMovingAverage returns null before the window is filled and
\* the arithmetic mean of the trailing w values from there on, in a result of
\* the length of the series.
C5_MovingAverage ==
  computed # NoResult /\ computed.fn = "calculateMovingAverage" =>
    /\ Len(computed.value) = Len(series)
    /\ \A i \in 1..Len(series) :
          IF i < window THEN computed.value[i] = Null
          ELSE /\ computed.value[i] # Null
               /\ computed.value[i].den > 0
               /\ computed.value[i].num * window
                    = computed.value[i].den * TrailingSum(series, i, window)

\* a series longer than the window, with a mean that is not a series value
C5_Witness ==
  /\ computed # NoResult /\ computed.fn = "calculateMovingAverage"
  /\ series = <<2, 5, 0>>
  /\ window = 2
  /\ computed.value = <<Null, Rat(7, 2), Rat(5, 2)>>

\* C6: every forecast point of the exponential-smoothing forecast is >= 0,
\* also when the last daily total is negative.
C6_ForecastNonNegative ==
  /\ computed # NoResult
  /\ computed.fn \in {"exponentialSmoothing", "Retail_exponentialSmoothing"}
  /\ Len(series) > 0
  => \A i \in DOMAIN computed.value :
        computed.value[i].den > 0 /\ computed.value[i].num >= 0

\* C7: every forecast value equals the last observation, floored at zero and
\* rounded, for every smoothing factor and horizon step; no other observation
\* matters.
C7_FlatAnchor ==
  computed # NoResult /\ computed.fn = "exponentialSmoothing" /\ Len(series) > 0 =>
    /\ Len(computed.value) = horizon
    /\ \A i \in DOMAIN computed.value :
          computed.value[i] = Num(IF Last(series) < 0 THEN 0 ELSE Last(series))
    /\ computed.value = exponentialSmoothing(<<Last(series)>>, alpha, horizon)

\* several steps with a factor below 1 on a series whose first and last
\* observations differ
C7_Witness ==
  /\ computed # NoResult /\ computed.fn = "exponentialSmoothing"
  /\ series = <<5, 0, 2>>
  /\ alpha = Alpha
  /\ horizon = MaxHorizon
  /\ computed.value = [i \in 1..MaxHorizon |-> Num(2)]

\* the distinct dates of the input
InputDates == {data[i].Date : i \in DOMAIN data}

\* entries of s are strictly ascending by calendar date and cover each input
\* date once
OnePerDateAscending(s) ==
  /\ {s[i].date : i \in DOMAIN s} = InputDates
  /\ Len(s) = Cardinality(InputDates)
  /\ \A i, j \in DOMAIN s :
        i < j => DayNumber(fromFormat(s[i].date)) < DayNumber(fromFormat(s[j].date))

\* C8: daily_sales and predictions.historical hold one entry per distinct
\* input date, ordered by calendar date ascending.
C8_DailyOrdering ==
  IsOk(result) =>
    /\ OnePerDateAscending(result.daily_sales)
    /\ OnePerDateAscending(result.historical)

\* the chronologically latest input date and the units sold on it
LatestDate ==
  CHOOSE d \in InputDates :
    \A e \in InputDates : DayNumber(fromFormat(e)) <= DayNumber(fromFormat(d))
LatestTotal ==
  SumSeq(Pluck(GroupOf(data, "Date", LatestDate), "Units_Sold"))

\* C9: the forecast has Horizon points, point k is dated k days after the
\* chronologically latest observed date, and the forecast is seeded from that
\* date's daily total.
C9_ForecastDates ==
  IsOk(result) =>
    /\ Len(result.forecast) = Horizon
    /\ \A k \in DOMAIN result.forecast :
          /\ DayNumber(fromFormat(result.forecast[k].date))
               = DayNumber(fromFormat(LatestDate)) + k
          /\ result.forecast[k].predicted
               = exponentialSmoothing(<<LatestTotal>>, Alpha, Horizon)[k]

\* C10: recency 0 with frequency and monetary at the reference maximum scores
\* 5.0 and is High-Value; recency at or above the reference maximum with zero
\* frequency and monetary scores 1.0 and is Low-Value; every per-dimension
\* score lies in 1..5.
C10_RFMExtremes ==
  scored # NoResult =>
    /\ (rfm.recency = 0 /\ rfm.frequency = getMaxValue /\ rfm.monetary = getMaxValue
          => scored.score = Num(5) /\ scored.segment = "High-Value")
    /\ (rfm.recency >= getMaxValue /\ rfm.frequency = 0 /\ rfm.monetary = 0
          => scored.score = Num(1) /\ scored.segment = "Low-Value")
    /\ {scored.rScore, scored.fScore, scored.mScore} \subseteq 1..5

\* the best segment has been scored
C10_Witness ==
  /\ scored # NoResult
  /\ rfm = [recency |-> 0, frequency |-> getMaxValue, monetary |-> getMaxValue]
  /\ scored.segment = "High-Value"

\* the Units_Sold and the mean Lead_Time_Days of the records of a product
UnitsOf(product) == Pluck(GroupOf(data, "Product", product), "Units_Sold")
LeadTimeOf(product) ==
  Rat(SumSeq(Pluck(GroupOf(data, "Product", product), "Lead_Time_Days")),
      Len(GroupOf(data, "Product", product)))

C12_Purity == [][data' = data]_vars

\* C13: on an input with fewer than 2 distinct observed days (the empty input
\* included) processData fails with InsufficientData; it neither returns
\* forecast values nor throws another exception.
C13_ForecastPrecondition ==
  entry = "processData" /\ Cardinality(InputDates) < 2 =>
    result = Threw("InsufficientData")

\* C14: a processor of the process route that ran on a non-empty collection
\* answers insufficient_data exactly when fewer records than its minimum (3 for
\* sales and customer, 2 for inventory) survive its cleaning step.
C14_MinimumObservations ==
  LET usable == IF stored = "sales" THEN Len(cleanSales(docs))
                ELSE IF stored = "customer" THEN Len(cleanCustomers(docs))
                ELSE Len(cleanInventory(docs))
      minimum == IF stored = "inventory" THEN 2 ELSE MinSales
  IN  /\ response # NoResult
      /\ request.endpoint = "process"
      /\ dbUp
      /\ stored \in {"sales", "customer", "inventory"}
      /\ request.dataType = stored
      /\ Len(docs) > 0
      => (("error" \in DOMAIN response.body
            /\ response.body.error = "insufficient_data") <=> usable < minimum)

\* C15: on a collection of at least 3 records the sales and the customer
\* processor answer invalid_data exactly when more than half of the records
\* were rejected by the cleaning step.
C15_RejectionRate ==
  LET rejected == IF stored = "sales" THEN Len(docs) - Len(cleanSales(docs))
                  ELSE Len(docs) - Len(cleanCustomers(docs))
  IN  /\ response # NoResult
      /\ request.endpoint = "process"
      /\ dbUp
      /\ stored \in {"sales", "customer"}
      /\ request.dataType = stored
      /\ Len(docs) >= MinSales
      => (("error" \in DOMAIN response.body
            /\ response.body.error = "invalid_data") <=> 2 * rejected > Len(docs))

\* C16: a request that names a data type other than sales, customer and
\* inventory is answered with the unsupported-data-type error and without
\* results, whatever the collections hold.
C16_UnsupportedMode ==
  /\ response # NoResult
  /\ dbUp
  /\ request.endpoint = "process" \/ request.session # ""
  /\ request.dataType \notin {"sales", "customer", "inventory", ""}
  => /\ response.status = 400
     /\ response.body.error = "Unsupported data type"
     /\ "results" \notin DOMAIN response.body
     /\ saved = NoResult

\* C17: when the stored records make a module that needs dates fail (a record
\* has no Date) while the inventory module, which reads no date, has data, the
\* process-data route still answers 200 with the inventory results and an
\* error for the failed module.
C17_PartialResults ==
  /\ response # NoResult
  /\ request.endpoint = "process-data"
  /\ request.session # ""
  /\ dbUp
  /\ \E i \in DOMAIN docs : docs[i].Date = MissingDate
  => /\ response.status = 200
     /\ "results" \in DOMAIN response.body
     /\ "inventoryInsights" \in DOMAIN response.body.results
     /\ "error" \in DOMAIN response.body.results

\* C18: every response of the two routes that reports an error has both an
\* error field and a message field.
C18_ErrorShape ==
  response # NoResult /\ "error" \in DOMAIN response.body =>
    "message" \in DOMAIN response.body

\* C19: the records processSalesData computes from are exactly the raw records
\* with a parseable date, a present numeric amount and a present numeric
\* non-negative quantity; no record with an absent field is kept.
C19_DropNeverZero ==
  LET present(v) == v.t # "undefined" /\ ~IsNaN(coerceNumber(v))
      wellFormed(doc) ==
        /\ newDate(doc.date) # InvalidDate
        /\ present(doc.amount)
        /\ present(doc.quantity)
        /\ RatLeq(Num(0), coerceNumber(doc.quantity))
  IN  IsOk(salesResult) =>
        Len(salesResult.historicalData) = Len(SelectSeq(raw, wellFormed))

\* C20: customerSegments of processData is ordered by score descending, equal
\* scores by monetary descending, and segments equal in both by demographic
\* ascending.
C20_SegmentOrder ==
  LET segments == result.customerSegments
      \* the lexicographic order of the demographics "d1" and "d2"
      keyBefore(a, b) == a = "d1" /\ b = "d2"
  IN  entry = "processData" /\ IsOk(result) =>
        \A i, j \in DOMAIN segments : i < j =>
          \/ ~RatLeq(segments[i].score, segments[j].score)
          \/ /\ segments[i].score = segments[j].score
             /\ \/ segments[i].monetary > segments[j].monetary
                \/ /\ segments[i].monetary = segments[j].monetary
                   /\ keyBefore(segments[i].demographic, segments[j].demographic)

\* C21: analyzeInventory classifies each product on the cumulative revenue
\* share inclusively: a product placed while the share before it is below 70%
\* is A, also when its own revenue takes the share past 70%; one placed while
\* the share before it is from 70% to below 90% is B.
C21_AbcBoundary ==
  entry = "analyzeInventory" =>
    LET insights == result.inventoryInsights
        total == SumSeq(Pluck(insights, "revenue"))
        before(p) == SumSeq(SubSeq(Pluck(insights, "revenue"), 1, p - 1))
    IN  \A p \in DOMAIN insights :
          total > 0 =>
            insights[p].category =
              IF 100 * before(p) < ThresholdA * total THEN "A"
              ELSE IF 100 * before(p) < ThresholdB * total THEN "B"
              ELSE "C"

\* C22: for a product whose average daily sales is 0, analyzeInventory reports
\* the stock coverage as infinite and never as NaN.
C22_CoverageGuard ==
  entry = "analyzeInventory" =>
    \A p \in DOMAIN result.inventoryInsights :
      LET metrics == result.inventoryInsights[p].metrics
      IN  metrics.avg_daily_sales = Num(0) =>
            ~IsNaN(metrics.stock_coverage) /\ metrics.stock_coverage.den = 0

\* C23: detectAnomalies reports a record of a product as a sales (price)
\* anomaly exactly when its units sold (price) lie more than 2.5 (2) sample
\* standard deviations from the mean of the product; for a product whose
\* values all coincide nothing is reported. With n values of sum S and sum of
\* squares Q: 100 * (n*x - S)^2 * (n - 1) > t^2 * n * (n*Q - S^2), t in tenths.
C23_ConstantSeriesGuard ==
  entry = "detectAnomalies" =>
    \A product \in Products :
      LET items == GroupOf(data, "Product", product)
          n == Len(items)
          far(xs, x, t) ==
            LET S == SumSeq(xs)
                Q == SumSeq([i \in 1..n |-> xs[i] * xs[i]])
            IN  100 * (n * x - S) * (n * x - S) * (n - 1) > t * t * n * (n * Q - S * S)
          matching(s, f, x) ==
            Len(SelectSeq(s, LAMBDA e : e.product = product /\ e[f] = x))
          constant(xs) == \A i, j \in 1..n : xs[i] = xs[j]
      IN  /\ \A i \in 1..n :
                /\ matching(result.sales_anomalies, "units_sold", items[i].Units_Sold)
                     = IF far(Pluck(items, "Units_Sold"), items[i].Units_Sold, SalesThreshold)
                       THEN Len(GroupOf(items, "Units_Sold", items[i].Units_Sold)) ELSE 0
                /\ matching(result.price_anomalies, "price", items[i].Price_per_Unit_BWP)
                     = IF far(Pluck(items, "Price_per_Unit_BWP"),
                              items[i].Price_per_Unit_BWP, PriceThreshold)
                       THEN Len(GroupOf(items, "Price_per_Unit_BWP",
                                        items[i].Price_per_Unit_BWP)) ELSE 0
          /\ constant(Pluck(items, "Units_Sold")) =>
               \A k \in DOMAIN result.sales_anomalies :
                  result.sales_anomalies[k].product # product
          /\ constant(Pluck(items, "Price_per_Unit_BWP")) =>
               \A k \in DOMAIN result.price_anomalies :
                  result.price_anomalies[k].product # product

\* nine records of one product at one price, eight of 1 unit and one of 9
\* units: the large sale is reported, and no price
C23_Witness ==
  /\ entry = "detectAnomalies"
  /\ Pluck(data, "Units_Sold") = <<1, 1, 1, 1, 1, 1, 1, 1, 9>>
  /\ Len(result.sales_anomalies) = 1
  /\ result.sales_anomalies[1].units_sold = 9
  /\ result.price_anomalies = <<>>

\* C24: after groupByProduct has folded the records, every product's
\* transactions is the number of its records and its avgPrice and
\* avgCompetitionPrice are the means of its prices computed from scratch.
C24_RunningMean ==
  entry = "groupByProduct" =>
    \A k \in DOMAIN result.productStats :
      LET stats == result.productStats[k]
          items == GroupOf(data, "Product", stats.product)
      IN  /\ stats.transactions = Len(items)
          /\ stats.avgPrice = Rat(SumSeq(Pluck(items, "Price_per_Unit_BWP")), Len(items))
          /\ stats.avgCompetitionPrice =
               Rat(SumSeq(Pluck(items, "Competition_Price_BWP")), Len(items))

\* three records of one product at prices 10, 25, 25: the mean is 20
C24_Witness ==
  /\ entry = "groupByProduct"
  /\ Pluck(data, "Price_per_Unit_BWP") = <<10, 25, 25>>
  /\ Len(result.productStats) = 1
  /\ result.productStats[1].avgPrice = Num(20)

\* C25: every pair itemset analyzeMarketBasket reports has support >= 0.05,
\* every rule it reports has confidence >= 0.3, and for a reported pair each
\* direction is reported exactly when the fraction of the transactions with
\* the antecedent that also hold the consequent is at least 0.3.
C25_AssociationThresholds ==
  entry = "analyzeMarketBasket" =>
    LET keysWith(product) ==
          { <<data[i].Date, data[i].Store, data[i].Customer_Demographic>> :
              i \in {j \in DOMAIN data : data[j].Product = product} }
        both(x, y) == Cardinality(keysWith(x) \cap keysWith(y))
        ruled(x, y) == \E r \in DOMAIN result.association_rules :
                          /\ result.association_rules[r].antecedent = <<x>>
                          /\ result.association_rules[r].consequent = <<y>>
    IN  /\ \A k \in DOMAIN result.frequent_itemsets :
              LET s == result.frequent_itemsets[k]
              IN  Len(s.items) = 2 =>
                    /\ RatLeq(Rat(MinSupport, 100), s.support)
                    /\ ruled(s.items[1], s.items[2]) <=>
                         100 * both(s.items[1], s.items[2])
                           >= MinConfidence * Cardinality(keysWith(s.items[1]))
                    /\ ruled(s.items[2], s.items[1]) <=>
                         100 * both(s.items[1], s.items[2])
                           >= MinConfidence * Cardinality(keysWith(s.items[2]))
        /\ \A r \in DOMAIN result.association_rules :
              RatLeq(Rat(MinConfidence, 100), result.association_rules[r].confidence)

\* four transactions hold the first product and one of them the second too:
\* the pair is reported (support 1/4), and of its two rules only the one from
\* the second product (confidence 1; the other way 1/4)
C25_Witness ==
  /\ entry = "analyzeMarketBasket"
  /\ Pluck(data, "Product") = <<"p1", "p2", "p1", "p1", "p1">>
  /\ \E k \in DOMAIN result.frequent_itemsets :
        result.frequent_itemsets[k] = [items |-> <<"p1", "p2">>, support |-> Rat(1, 4)]
  /\ Len(result.association_rules) = 1
  /\ result.association_rules[1].antecedent = <<"p2">>

\* C26: every single-item itemset analyzeMarketBasket reports has support
\* >= 0.05, the support being the fraction of the transactions that hold the
\* item.
C26_TransactionsAreSets ==
  entry = "analyzeMarketBasket" =>
    \A k \in DOMAIN result.frequent_itemsets :
      Len(result.frequent_itemsets[k].items) = 1 =>
        RatLeq(Rat(MinSupport, 100), result.frequent_itemsets[k].support)

\* C27: a request to the upload route without a session is answered 401 and
\* changes no document; a request of user u leaves the documents of the other
\* users as they are, and a GET returns documents of u only.
C27_TenantIsolation ==
  [][ request'.endpoint = "upload" =>
        LET u == request'.session
            others(collection) == SelectSeq(collection, LAMBDA d : d.userId # u)
        IN  /\ u = "" => response'.status = 401 /\ docs' = docs
            /\ others(docs') = others(docs)
            /\ "data" \in DOMAIN response'.body =>
                 \A i \in DOMAIN response'.body.data : response'.body.data[i].userId = u
    ]_vars

\* C28: once a handler has answered, no database client it opened is still
\* open and no temporary file it wrote is still in the directory.
C28_ResourceRelease ==
  response # NoResult => clients = 0 /\ tmpFiles = {}

\* C29: of the requests the middleware handles, one to /dashboard or below
\* it without a session is redirected to / with redirectedFrom set to its
\* path, one to / or /signup with a session is redirected to /dashboard, and
\* every other one passes; a request that arrived by a redirect is never
\* redirected again.
C29_MiddlewareRedirects ==
  response # NoResult /\ request.endpoint = "page" /\ matcher(request.pathname) =>
    LET dashboard == <<47, 100, 97, 115, 104, 98, 111, 97, 114, 100>>
        underDashboard ==
          \/ request.pathname = dashboard
          \/ /\ Len(request.pathname) > Len(dashboard)
             /\ SubSeq(request.pathname, 1, Len(dashboard) + 1) = dashboard \o <<Slash>>
    IN  /\ IF underDashboard /\ request.session = ""
           THEN /\ "redirect" \in DOMAIN response
                /\ response.redirect.pathname = <<47>>
                /\ response.redirect.redirectedFrom = request.pathname
           ELSE IF request.session # "" /\ request.pathname \in {<<47>>, <<47, 115, 105, 103, 110, 117, 112>>}
           THEN /\ "redirect" \in DOMAIN response
                /\ response.redirect.pathname = dashboard
           ELSE response = PassThrough
        /\ "redirect" \in DOMAIN response => request.hops = 0

\* a visitor without a session asked for /dashboard/upload, was sent to /
\* with redirectedFrom set, and passes there
C29_Witness ==
  /\ request.endpoint = "page"
  /\ request.session = ""
  /\ request.hops = 1
  /\ request.pathname = <<47>>
  /\ request.redirectedFrom = <<47, 100, 97, 115, 104, 98, 111, 97, 114, 100, 47, 117, 112, 108, 111, 97, 100>>
  /\ response = PassThrough

\* C30: while an upload of the page is in flight, uploadStatus is
\* "uploading" whatever other callback has completed, and the Process Data
\* button is not enabled.
C30_UploadStatus ==
  page # NoResult /\ ~page.left /\ Len(page.uploads) > 0 =>
    page.uploadStatus = "uploading" /\ ~ProcessDataEnabled

\* C3: after normalization, the number of valid records plus the reported
\* rejected count equals the number of raw records (here: whenever results are
\* returned although some record was rejected).
C3_RejectionAccounting ==
  IsOk(salesResult) /\ Len(salesResult.historicalData) < Len(raw) =>
    /\ "rejectedCount" \in DOMAIN salesResult
    /\ Len(salesResult.historicalData) + salesResult.rejectedCount = Len(raw)
====
